---- MODULE Spec2Model ----
(***************************************************************************)
(* SagaPay: the payment saga of finpay.                                    *)
(*                                                                         *)
(* The relational store is PostgreSQL at its default isolation level      *)
(* (READ COMMITTED, finpay/common/db.py creates the engine without an      *)
(* isolation_level).  The session is built with autoflush=False, so every  *)
(* db.add() is held in the session until db.flush()/db.commit(), while a   *)
(* db.execute(update(...)) statement runs at once and leaves the row       *)
(* locked until the transaction ends.  A handler execution is therefore a  *)
(* sequence of statements; several executions (workers) interleave at      *)
(* statement boundaries.                                                   *)
(***************************************************************************)
EXTENDS Integers, Sequences, FiniteSets, TLC

VARIABLES
    svc,        \* the service process whose store this behaviour follows
    bus,        \* envelopes present on the event log (at-least-once delivery)
    payments,   \* orchestrator: payments rows in insertion order
    timeline,   \* orchestrator: payment_timeline rows in insertion order
    attempts,   \* orchestrator: payment_attempts rows in insertion order
    entries,    \* ledger: ledger_entries rows in insertion order
    accounts,   \* ledger: accounts.balance_cents by account_id
    reviews,    \* risk: risk_reviews rows in insertion order
    velocity,   \* risk: the Redis velocity counter of the hour, by customer
    provider_attempts,  \* provider adapter: provider_attempts rows
    notifications,      \* notification: notification_logs rows
    outbox,     \* per service: outbox_events rows in insertion order
    inbox,      \* per service: inbox_events rows in insertion order
    dup,        \* duplicate_events_skipped_total{service, topic}
    wk,         \* per worker: the handler execution it is running
    nextId,     \* number of payment ids (uuid4) drawn so far
    clients,    \* requests the HTTP clients may send (any number of times)
    responses,  \* HTTP responses of POST /internal/payments, <<key, result>>
    pub,        \* per outbox publisher: its place in the loop and its batch
    now,        \* the clock, in seconds
    failures,   \* publishes the bus has failed so far
    delivered,  \* <<service, event_id, committed>>: envelopes a consumer
                \* group has handed to its handler, and whether their offset
                \* is committed
    kv,         \* TRUE while Redis answers
    gw,         \* API gateway: token buckets, idempotency cache, replies
    called      \* the last call of a function and what it returned or raised

\* The tables of each service's database, and Redis.
orchestratorStore == <<payments, timeline, attempts>>
ledgerStore == <<entries, accounts>>
riskStore == <<reviews, velocity>>
providerStore == <<provider_attempts>>
notificationStore == <<notifications>>
\* What a handler of one service never touches: the other services' stores.
notOrchestrator == <<ledgerStore, riskStore, providerStore, notificationStore>>
notLedger == <<orchestratorStore, riskStore, providerStore, notificationStore>>
notRisk == <<orchestratorStore, ledgerStore, providerStore, notificationStore>>
notProvider == <<orchestratorStore, ledgerStore, riskStore, notificationStore>>
notNotification == <<orchestratorStore, ledgerStore, riskStore, providerStore>>
\* The outbox publishers, the clock and the bus's failures.
publisherState == <<pub, now, failures>>
\* The consumers' positions, Redis' availability and the API gateway.
edgeState == <<delivered, kv, gw, called>>
stores ==
    <<orchestratorStore, ledgerStore, riskStore, providerStore,
      notificationStore, outbox, inbox>>

vars == <<svc, bus, payments, timeline, attempts, entries, accounts, reviews,
          velocity, provider_attempts, notifications, outbox, inbox, dup, wk,
          nextId, clients, responses, pub, now, failures, delivered, kv, gw,
          called>>

----------------------------------------------------------------------------
(* Bounds *)

MaxPayments == 2      \* payment ids that may be drawn
MaxInputs == 3        \* distinct envelopes on the log plus distinct requests
MaxDup == 1           \* cap of the duplicate_events_skipped counters' sum

Null == "null"           \* None, where a string is expected
NullInt == -1            \* None, where an integer is expected
NoEventId == <<"none", 0, 0>>   \* None, where an event_id is expected
Workers == {"w1", "w2"}
Services == {"orchestrator", "risk", "provider-adapter", "ledger", "notification"}
Topics ==
    {"payments.requested", "risk.approved", "risk.denied",
     "provider.authorize.requested", "payments.authorized", "payments.failed",
     "payments.captured", "payments.settled", "payments.reversed",
     "payments.dlq"}
PaymentIds == 1..MaxPayments

----------------------------------------------------------------------------
(* finpay/common/state_machine.py *)

STATUSES ==
    {"CREATED", "RISK_REVIEW", "APPROVED", "AUTHORIZED", "CAPTURED",
     "SETTLED", "FAILED", "REVERSED"}

\* (mutant: a SETTLED payment may still fail)
ALLOWED_TRANSITIONS_settled_may_fail ==
    [s \in STATUSES |->
        CASE s = "CREATED"     -> {"RISK_REVIEW", "APPROVED", "FAILED"}
          [] s = "RISK_REVIEW" -> {"APPROVED", "FAILED"}
          [] s = "APPROVED"    -> {"AUTHORIZED", "FAILED"}
          [] s = "AUTHORIZED"  -> {"CAPTURED", "FAILED", "REVERSED"}
          [] s = "CAPTURED"    -> {"SETTLED", "FAILED", "REVERSED"}
          [] s = "SETTLED"     -> {"FAILED"}
          [] s = "FAILED"      -> {"REVERSED"}
          [] s = "REVERSED"    -> {}]

ALLOWED_TRANSITIONS ==
    [s \in STATUSES |->
        CASE s = "CREATED"     -> {"RISK_REVIEW", "APPROVED", "FAILED"}
          [] s = "RISK_REVIEW" -> {"APPROVED", "FAILED"}
          [] s = "APPROVED"    -> {"AUTHORIZED", "FAILED"}
          [] s = "AUTHORIZED"  -> {"CAPTURED", "FAILED", "REVERSED"}
          [] s = "CAPTURED"    -> {"SETTLED", "FAILED", "REVERSED"}
          [] s = "SETTLED"     -> {}
          [] s = "FAILED"      -> {"REVERSED"}
          [] s = "REVERSED"    -> {}]

\* (mutant: the check is skipped)
validate_transition_skipped(current, new) == TRUE

\* TRUE when validate_transition returns, FALSE when it raises ValueError.
validate_transition(current, new) ==
    new \in (IF current \in DOMAIN ALLOWED_TRANSITIONS
             THEN ALLOWED_TRANSITIONS[current] ELSE {})

----------------------------------------------------------------------------
(* finpay/common/events.py: the envelope *)

NoPayload ==
    [decision |-> Null, error_code |-> Null, attempt_number |-> NullInt,
     amount_cents |-> NullInt, customer_id |-> Null, currency |-> Null]

EventEnvelope(id, type, agg, pl) ==
    [event_id |-> id, event_type |-> type, aggregate_id |-> agg, payload |-> pl]

\* payload.get(key, default), for a string and for an integer value
PayloadGet(pl, key, default) == IF pl[key] = Null THEN default ELSE pl[key]
PayloadGetInt(pl, key, default) == IF pl[key] = NullInt THEN default ELSE pl[key]

NoEvent == EventEnvelope(NoEventId, "none", 0, NoPayload)

\* An aggregate_id that matches no payment (payment ids are uuid4 values, so
\* an envelope that is not about an existing payment never matches a later one).
UnknownAggregate == 0

\* Envelopes that may appear on the orchestrator's topics: about payment 1,
\* and about an unknown aggregate.
OrchestratorEvents ==
    { EventEnvelope(<<"risk.approved", 1, 0>>, "risk.approved", 1,
                    [NoPayload EXCEPT !.decision = "APPROVE"]),
      EventEnvelope(<<"risk.denied", 1, 0>>, "risk.denied", 1,
                    [NoPayload EXCEPT !.decision = "REVIEW"]),
      EventEnvelope(<<"risk.denied", 1, -1>>, "risk.denied", 1,
                    [NoPayload EXCEPT !.decision = "DENY"]),
      EventEnvelope(<<"payments.authorized", 1, 0>>, "payments.authorized", 1,
                    [NoPayload EXCEPT !.attempt_number = 1]),
      EventEnvelope(<<"payments.failed", 1, 0>>, "payments.failed", 1,
                    [NoPayload EXCEPT !.attempt_number = 3,
                                      !.error_code = "PROVIDER_TIMEOUT"]),
      EventEnvelope(<<"payments.failed", 1, -1>>, "payments.failed", 1,
                    [NoPayload EXCEPT !.attempt_number = 1,
                                      !.error_code = "PROVIDER_DECLINE"]),
      EventEnvelope(<<"payments.settled", 1, 0>>, "payments.settled", 1,
                    NoPayload) }
    \cup
    { EventEnvelope(<<"payments.failed", UnknownAggregate, 0>>,
                    "payments.failed", UnknownAggregate,
                    [NoPayload EXCEPT !.attempt_number = 3,
                                      !.error_code = "PROVIDER_TIMEOUT"]) }

----------------------------------------------------------------------------
(* finpay/services/orchestrator/schemas.py: PaymentCreateRequest *)

NoRequest ==
    [idempotency_key |-> Null, customer_id |-> Null, amount_cents |-> 0,
     currency |-> Null]

Requests ==
    { [idempotency_key |-> "key-1", customer_id |-> "cust-1",
       amount_cents |-> 5000, currency |-> "USD"] }

----------------------------------------------------------------------------
(* Rows *)

Payment(id, req) ==
    [payment_id |-> id, customer_id |-> req.customer_id,
     amount_cents |-> req.amount_cents, currency |-> req.currency,
     status |-> "CREATED", state_version |-> 0,
     idempotency_key |-> req.idempotency_key]

NoPayment ==
    [payment_id |-> 0, customer_id |-> Null, amount_cents |-> 0,
     currency |-> Null, status |-> Null, state_version |-> 0,
     idempotency_key |-> Null]

\* db.get(Payment, pid): the committed row, or NoPayment
GetPayment(pid) ==
    IF \E i \in 1..Len(payments) : payments[i].payment_id = pid
    THEN payments[CHOOSE i \in 1..Len(payments) : payments[i].payment_id = pid]
    ELSE NoPayment

PaymentTimeline(pid, from, to, reason, eid) ==
    [payment_id |-> pid, from_state |-> from, to_state |-> to,
     reason |-> reason, event_id |-> eid]

\* (mutant: the attempt row does not keep the error code)
PaymentAttempt_without_code(pid, n, result, code) ==
    [payment_id |-> pid, attempt_number |-> n, result |-> result,
     error_code |-> Null]

PaymentAttempt(pid, n, result, code) ==
    [payment_id |-> pid, attempt_number |-> n, result |-> result,
     error_code |-> code]

\* An outbox row; status defaults to PENDING and sent_at to NULL.  The
\* envelope's event_id is a fresh uuid4: <<topic, aggregate, row number>>.
OutboxEvent(rows, agg, topic, pl, at) ==
    [id |-> Len(rows) + 1, aggregate_id |-> agg, topic |-> topic,
     payload |-> EventEnvelope(<<topic, agg, Len(rows) + 1>>, topic, agg, pl),
     status |-> "PENDING", created_at |-> at, sent_at |-> NullInt]

InboxEvent(eid, service) == [event_id |-> eid, consumed_by_service |-> service]

----------------------------------------------------------------------------
(* Worker (one handler execution = one database session) *)

\* The balances a session holds before it has read any account.
NoSnapshot == [a \in {"customer_cash", "merchant_receivable"} |-> 0]

IdleWorker ==
    [pc |-> "idle", ev |-> NoEvent, req |-> NoRequest, pay |-> NoPayment,
     locked |-> FALSE, queue |-> <<>>, tl |-> <<>>,
     base |-> NoPayment, tried |-> FALSE, res |-> "none",
     snap |-> NoSnapshot, decision |-> <<Null, Null>>, review |-> FALSE, attempt |-> 0]

\* The execution ends: the session closes; what was not committed is rolled
\* back.  The snapshot it started from and the outcome stay visible until
\* the worker takes its next job.
Finished(w, result) ==
    [IdleWorker EXCEPT !.base = wk[w].base, !.tried = wk[w].tried,
                       !.res = result]

\* A new execution starts on worker w; the outcomes of the executions that
\* have ended are forgotten.
Start(w, execution) ==
    [o \in Workers |->
        IF o = w THEN execution
        ELSE IF wk[o].pc = "idle" THEN IdleWorker ELSE wk[o]]

\* The processes of a service run in this behaviour: the behaviour follows
\* that service alone, or the whole saga ("all").
Runs(service) == svc \in {service, "all"}

\* Executions are anonymous: a new one takes the first free worker.
FirstIdle(w) ==
    /\ wk[w].pc = "idle"
    /\ w = "w1" \/ wk["w1"].pc # "idle"

RowLockedByOther(w, pid) ==
    \E o \in Workers \ {w} :
        wk[o].locked /\ wk[o].pay.payment_id = pid

----------------------------------------------------------------------------
(* finpay/services/orchestrator/service.py *)

\* (mutant: the inbox check finds nothing)
_inbox_seen_never(service, eid) == FALSE

\* _inbox_seen: select(InboxEvent).where(event_id, consumed_by_service)
_inbox_seen(service, eid) ==
    \E i \in 1..Len(inbox[service]) :
        inbox[service][i] = InboxEvent(eid, service)

\* create_payment, first statement: select(Payment).where(idempotency_key).
create_payment_select(w, req) ==
    /\ Runs("orchestrator")
    /\ FirstIdle(w)
    /\ LET existing == {i \in 1..Len(payments) :
                          payments[i].idempotency_key = req.idempotency_key}
       IN IF existing # {}
          THEN /\ responses' = responses \cup
                     {<<req.idempotency_key,
                        payments[CHOOSE i \in existing : TRUE].payment_id>>}
               /\ wk' = Start(w, IdleWorker)
          ELSE /\ wk' = Start(w, [IdleWorker EXCEPT !.pc = "c_flush",
                                                    !.req = req])
               /\ UNCHANGED responses
    /\ UNCHANGED notOrchestrator
    /\ UNCHANGED <<svc, bus, payments, timeline, attempts, outbox, inbox, dup,
                   nextId, clients>>

\* create_payment: db.add(payment); db.flush().  The INSERT waits for an
\* uncommitted row with the same idempotency_key and fails with IntegrityError
\* (HTTP 400 in main.create_payment) when a committed one exists.
create_payment_flush(w) ==
    /\ wk[w].pc = "c_flush"
    /\ nextId < MaxPayments
    /\ ~ \E o \in Workers \ {w} :
           wk[o].pc = "c_commit"
           /\ wk[o].pay.idempotency_key = wk[w].req.idempotency_key
    /\ nextId' = nextId + 1
    /\ IF \E i \in 1..Len(payments) :
             payments[i].idempotency_key = wk[w].req.idempotency_key
       THEN /\ responses' = responses \cup {<<wk[w].req.idempotency_key, 400>>}
            /\ wk' = [wk EXCEPT ![w] = IdleWorker]
       ELSE /\ wk' = [wk EXCEPT ![w].pc = "c_commit",
                                ![w].pay = Payment(nextId + 1, wk[w].req)]
            /\ UNCHANGED responses
    /\ UNCHANGED notOrchestrator
    /\ UNCHANGED <<svc, bus, payments, timeline, attempts, outbox, inbox, dup,
                   clients>>

\* create_payment: add the first timeline row and the payments.requested
\* outbox row, commit, return the payment.
create_payment_commit(w) ==
    /\ wk[w].pc = "c_commit"
    /\ LET p == wk[w].pay
       IN /\ payments' = Append(payments, p)
          /\ timeline' = Append(timeline,
                 PaymentTimeline(p.payment_id, Null, "CREATED",
                                 "payment_created", NoEventId))
          /\ outbox' = [outbox EXCEPT !["orchestrator"] =
                 Append(@, OutboxEvent(@, p.payment_id, "payments.requested",
                     [NoPayload EXCEPT !.customer_id = p.customer_id,
                                       !.amount_cents = p.amount_cents,
                                       !.currency = p.currency], now))]
          /\ responses' = responses \cup {<<p.idempotency_key, p.payment_id>>}
    /\ wk' = [wk EXCEPT ![w] = IdleWorker]
    /\ UNCHANGED notOrchestrator
    /\ UNCHANGED <<svc, bus, attempts, inbox, dup, nextId, clients>>

create_payment(w) ==
    /\ UNCHANGED edgeState
    /\ \/ \E req \in clients : create_payment_select(w, req)
       \/ create_payment_flush(w)
       \/ create_payment_commit(w)

----------------------------------------------------------------------------
(* The orchestrator's consumers.  What a handler does once the payment is
   loaded: the transitions it applies in order, the attempt row it adds and
   the events it enqueues. *)

NoPlan == [transitions |-> <<>>, attempts |-> <<>>, emits |-> <<>>]

Step(to, reason) == [to |-> to, reason |-> reason]
Emit(topic, pl) == [topic |-> topic, payload |-> pl]

\* (mutant: an event about no payment is answered with a reversal)
missing_payment_plan_reversed ==
    [NoPlan EXCEPT !.emits = <<Emit("payments.reversed", NoPayload)>>]

\* if not payment: self._mark_inbox(db, event.event_id); db.commit(); return
missing_payment_plan == NoPlan

PaymentPayload(p) ==
    [NoPayload EXCEPT !.amount_cents = p.amount_cents,
                      !.currency = p.currency,
                      !.customer_id = p.customer_id]

\* f"provider_failed:{error_code}"
ProviderFailedReason(code) ==
    CASE code = "PROVIDER_TIMEOUT" -> "provider_failed:PROVIDER_TIMEOUT"
      [] code = "PROVIDER_DECLINE" -> "provider_failed:PROVIDER_DECLINE"
      [] OTHER -> "provider_failed:UNKNOWN"

handle_risk_approved_plan(e, p) ==
    [transitions |-> <<Step("APPROVED", "risk_approved")>>,
     attempts |-> <<>>,
     emits |-> <<Emit("provider.authorize.requested", PaymentPayload(p))>>]

\* (mutant: every risk.denied fails the payment)
risk_denied_target_failed(decision) == "FAILED"

\* target = "RISK_REVIEW" if event.payload.get("decision") == "REVIEW" else "FAILED"
risk_denied_target(decision) ==
    IF decision = "REVIEW" THEN "RISK_REVIEW" ELSE "FAILED"

\* (mutant: risk.denied moves nothing)
handle_risk_denied_plan_ignored(e, p) == NoPlan

handle_risk_denied_plan(e, p) ==
    LET target == risk_denied_target(e.payload.decision)
        reason == IF target = "RISK_REVIEW" THEN "risk_review_required"
                  ELSE "risk_denied"
    IN [transitions |-> <<Step(target, reason)>>,
        attempts |-> <<>>,
        emits |-> <<>>]

\* (mutant: the payment is authorized and not captured)
handle_authorized_plan_uncaptured(e, p) ==
    [transitions |-> <<Step("AUTHORIZED", "provider_authorized")>>,
     attempts |-> <<PaymentAttempt(p.payment_id,
                        PayloadGetInt(e.payload, "attempt_number", 1),
                        "AUTHORIZED", Null)>>,
     emits |-> <<>>]

handle_authorized_plan(e, p) ==
    [transitions |-> <<Step("AUTHORIZED", "provider_authorized"),
                       Step("CAPTURED", "capture_requested")>>,
     attempts |-> <<PaymentAttempt(p.payment_id,
                        PayloadGetInt(e.payload, "attempt_number", 1),
                        "AUTHORIZED", Null)>>,
     emits |-> <<Emit("payments.captured", PaymentPayload(p))>>]

\* (mutant: a provider timeout is not compensated)
handle_failed_plan_uncompensated(e, p) ==
    [transitions |-> IF p.status # "FAILED"
                     THEN <<Step("FAILED", "provider_failed:UNKNOWN")>>
                     ELSE <<>>,
     attempts |-> <<>>,
     emits |-> <<>>]

\* (mutant: every provider failure is compensated)
compensated_any_error(e) == e.payload.error_code # "UNKNOWN"

\* if event.payload.get("error_code") == "PROVIDER_TIMEOUT":
compensated(e) == e.payload.error_code = "PROVIDER_TIMEOUT"

handle_failed_plan(e, p) ==
    LET timeout == compensated(e)
    IN [transitions |->
            (IF p.status # "FAILED"
             THEN <<Step("FAILED", ProviderFailedReason(
                        PayloadGet(e.payload, "error_code", "UNKNOWN")))>>
             ELSE <<>>)
            \o (IF timeout
                THEN <<Step("REVERSED", "provider_timeout_compensation")>>
                ELSE <<>>),
        attempts |-> <<PaymentAttempt(p.payment_id,
                           PayloadGetInt(e.payload, "attempt_number", 1),
                           "FAILED",
                           PayloadGet(e.payload, "error_code", "UNKNOWN"))>>,
        emits |-> IF timeout
                  THEN <<Emit("payments.reversed", NoPayload)>>
                  ELSE <<>>]

\* (mutant: payments.settled moves nothing)
handle_settled_plan_skipped(e, p) == NoPlan

handle_settled_plan(e, p) ==
    [transitions |-> <<Step("SETTLED", "ledger_settled")>>,
     attempts |-> <<>>,
     emits |-> <<>>]

OrchestratorTopics ==
    {"risk.approved", "risk.denied", "payments.authorized", "payments.failed",
     "payments.settled"}

RECURSIVE SumOver(_, _)
SumOver(f, S) ==
    IF S = {} THEN 0
    ELSE LET x == CHOOSE y \in S : TRUE IN f[x] + SumOver(f, S \ {x})

DupTotal == SumOver([s \in Services |-> SumOver(dup[s], Topics)], Services)

\* start_consumers: topic -> handler
OrchestratorPlan(e, p) ==
    CASE e.event_type = "risk.approved"       -> handle_risk_approved_plan(e, p)
      [] e.event_type = "risk.denied"         -> handle_risk_denied_plan(e, p)
      [] e.event_type = "payments.authorized" -> handle_authorized_plan(e, p)
      [] e.event_type = "payments.failed"     -> handle_failed_plan(e, p)
      [] e.event_type = "payments.settled"    -> handle_settled_plan(e, p)
      [] OTHER -> NoPlan

\* duplicate_events_skipped_total.labels(service=..., topic=...).inc()
_record_duplicate_skip(service, topic) ==
    [dup EXCEPT ![service][topic] = @ + 1]

\* The service a running execution belongs to, by the statement it is at.
ServiceOf(pc) ==
    CASE pc \in {"c_flush", "c_commit", "get", "transition", "commit"}
             -> "orchestrator"
      [] pc \in {"post", "l_commit"} -> "ledger"
      [] pc \in {"decide", "r_commit"} -> "risk"
      [] pc \in {"accept", "attempt", "exhausted"} -> "provider-adapter"
      [] pc \in {"n_commit"} -> "notification"
      [] OTHER -> "none"

\* The handler call of the envelope has not returned or raised yet.
Running(service, eid) ==
    \E w \in Workers :
        /\ ServiceOf(wk[w].pc) = service
        /\ wk[w].ev.event_id = eid

\* Envelopes of the service whose handler call has ended and whose offset
\* is not committed yet: consumer.commit() follows the batch, and getmany is
\* called again only after it.
Uncommitted(service) ==
    {d \in delivered : d[1] = service /\ ~ d[3] /\ ~ Running(service, d[2])}

\* consume_forever: within the saga a consumer group hands an envelope to
\* its handler once, and again only after a restart that came before the
\* offset was committed.  A behaviour that follows one service leaves the
\* restarts open: any envelope of the log may be handed over at any time.
Handed(service, e) ==
    IF svc = "all" THEN delivered \cup {<<service, e.event_id, FALSE>>}
    ELSE delivered

\* A handler is handed an envelope of its topic and runs its first statement,
\* the inbox check.  When the row is there it counts the duplicate and
\* returns: no statement follows the select, so the branch is one step.
ConsumerBegin(w, service, e, first) ==
    /\ Runs(service)
    /\ FirstIdle(w)
    /\ e \in bus
    /\ \A c \in BOOLEAN : <<service, e.event_id, c>> \notin delivered
    /\ Uncommitted(service) = {}
    /\ delivered' = Handed(service, e)
    /\ UNCHANGED <<kv, gw, called>>
    /\ IF _inbox_seen(service, e.event_id)
       THEN /\ DupTotal < MaxDup
            /\ dup' = _record_duplicate_skip(service, e.event_type)
            /\ wk' = Start(w, IdleWorker)
       ELSE /\ wk' = Start(w, [IdleWorker EXCEPT !.pc = first, !.ev = e])
            /\ UNCHANGED dup
    /\ UNCHANGED <<svc, bus, stores, nextId, clients, responses>>

\* payment = db.get(Payment, event.aggregate_id)
OrchGet(w) ==
    /\ wk[w].pc = "get"
    /\ LET p == GetPayment(wk[w].ev.aggregate_id)
           plan == IF p = NoPayment THEN missing_payment_plan
                   ELSE OrchestratorPlan(wk[w].ev, p)
       IN wk' = [wk EXCEPT ![w].pay = p, ![w].base = p,
                           ![w].queue = plan.transitions,
                           ![w].pc = IF plan.transitions = <<>>
                                     THEN "commit" ELSE "transition"]
    /\ UNCHANGED notOrchestrator
    /\ UNCHANGED <<svc, bus, payments, timeline, attempts, outbox, inbox, dup,
                   nextId, clients, responses>>

\* The row an UPDATE of worker w sees: its own uncommitted version when it
\* already wrote the row, else the committed one.
VisiblePayment(w, pid) ==
    IF wk[w].locked THEN wk[w].pay ELSE GetPayment(pid)

\* (mutant: the UPDATE is keyed on payment_id alone)
ConditionalUpdateRowcount_unguarded(w, p) ==
    IF VisiblePayment(w, p.payment_id).payment_id = p.payment_id THEN 1 ELSE 0

\* rowcount of UPDATE payments SET ... WHERE payment_id = :id
\*   AND status = :from_status AND state_version = :current_version
ConditionalUpdateRowcount(w, p) ==
    LET row == VisiblePayment(w, p.payment_id)
    IN IF /\ row.payment_id = p.payment_id
          /\ row.status = p.status
          /\ row.state_version = p.state_version
       THEN 1 ELSE 0

\* (mutant: the version is written back unchanged)
NextStateVersion_same(current_version) == current_version

\* .values(state_version=current_version + 1)
NextStateVersion(current_version) == current_version + 1

\* (mutant: the row records the new status as from_state)
TimelineFromState_new(from_status, new_status) == new_status

\* PaymentTimeline(from_state=from_status, ...)
TimelineFromState(from_status, new_status) == from_status

\* The PaymentAttempt rows the handler has added to its session when it
\* calls _transition: handle_failed adds its row between the move to FAILED
\* and the move to REVERSED, handle_authorized after both of its moves.
PendingAttempts(w) ==
    IF wk[w].ev.event_type = "payments.failed" /\ Head(wk[w].queue).to = "REVERSED"
    THEN OrchestratorPlan(wk[w].ev, wk[w].base).attempts
    ELSE <<>>

\* (mutant: what the session holds is flushed when the handler raises)
session_close_flushed(rows, pending) == rows \o pending

\* `with self.session_factory() as db:` left by an exception: the session
\* is closed without commit, the rows it holds are discarded.
session_close(rows, pending) == rows

\* _transition raises: the handler's `with` block is left.
TransitionRaises(w, error) ==
    /\ wk' = [wk EXCEPT ![w] = [Finished(w, error) EXCEPT !.tried =
                                   (error = "conflict") \/ wk[w].tried]]
    /\ timeline' = session_close(timeline, wk[w].tl)
    /\ attempts' = session_close(attempts, PendingAttempts(w))

\* _transition(db, payment, new_status, reason, event_id)
_transition(w) ==
    /\ wk[w].pc = "transition"
    /\ LET p == wk[w].pay
           step == Head(wk[w].queue)
       IN IF ~ validate_transition(p.status, step.to)
          THEN \* ValueError
               TransitionRaises(w, "invalid")
          ELSE /\ ~ RowLockedByOther(w, p.payment_id)
               /\ IF ConditionalUpdateRowcount(w, p) # 1
                  THEN \* RuntimeError: optimistic concurrency conflict
                       TransitionRaises(w, "conflict")
                  ELSE /\ wk' = [wk EXCEPT
                            ![w].pay = [p EXCEPT !.status = step.to,
                                                 !.state_version =
                                                     NextStateVersion(p.state_version)],
                            ![w].locked = TRUE,
                            ![w].tried = TRUE,
                            ![w].tl = Append(@, PaymentTimeline(p.payment_id,
                                          TimelineFromState(p.status, step.to),
                                          step.to, step.reason,
                                          wk[w].ev.event_id)),
                            ![w].queue = Tail(@),
                            ![w].pc = IF Tail(wk[w].queue) = <<>>
                                      THEN "commit" ELSE "transition"]
                       /\ UNCHANGED <<timeline, attempts>>
    /\ UNCHANGED notOrchestrator
    /\ UNCHANGED <<svc, bus, payments, outbox, inbox, dup,
                   nextId, clients, responses>>

\* (mutant: no inbox row is written)
_mark_inbox_skipped(service, eid) == inbox[service]

\* _mark_inbox: the INSERT is flushed by db.commit(); the primary key
\* (event_id, consumed_by_service) rejects a second row (IntegrityError).
_mark_inbox(service, eid) == Append(inbox[service], InboxEvent(eid, service))

\* (mutant: no uniqueness on inbox_events)
InboxUniqueViolation_off(service, eid) == FALSE

\* uq_inbox_consumer / the primary key (event_id, consumed_by_service)
InboxUniqueViolation(service, eid) ==
    \E i \in 1..Len(inbox[service]) :
        /\ inbox[service][i].event_id = eid
        /\ inbox[service][i].consumed_by_service = service

RECURSIVE AppendOutbox(_, _, _)
AppendOutbox(rows, agg, emits) ==
    IF emits = <<>> THEN rows
    ELSE AppendOutbox(
             Append(rows, OutboxEvent(rows, agg, Head(emits).topic,
                                      Head(emits).payload, now)),
             agg, Tail(emits))

\* db.commit(): flush the session and commit, or fail and roll back.
OrchCommit(w) ==
    /\ wk[w].pc = "commit"
    /\ LET e == wk[w].ev
           p == wk[w].pay
           plan == IF p = NoPayment THEN missing_payment_plan
                   ELSE OrchestratorPlan(e, wk[w].base)
       IN IF InboxUniqueViolation("orchestrator", e.event_id)
          THEN /\ wk' = [wk EXCEPT ![w] = Finished(w, "integrity")]
               /\ UNCHANGED <<payments, timeline, attempts, outbox, inbox>>
          ELSE /\ payments' =
                     IF wk[w].locked
                     THEN [i \in 1..Len(payments) |->
                             IF payments[i].payment_id = p.payment_id
                             THEN p ELSE payments[i]]
                     ELSE payments
               /\ timeline' = timeline \o wk[w].tl
               /\ attempts' = attempts \o plan.attempts
               /\ outbox' = [outbox EXCEPT !["orchestrator"] =
                                AppendOutbox(@, e.aggregate_id, plan.emits)]
               /\ inbox' = [inbox EXCEPT !["orchestrator"] =
                                _mark_inbox("orchestrator", e.event_id)]
               /\ wk' = [wk EXCEPT ![w] = Finished(w, "committed")]
    /\ UNCHANGED notOrchestrator
    /\ UNCHANGED <<svc, bus, dup, nextId, clients, responses>>

\* An envelope about a payment is on the log only after the payment was
\* created: every such envelope descends from its payments.requested.
Deliverable(e) ==
    /\ e \in bus
    /\ e.aggregate_id = UnknownAggregate \/ GetPayment(e.aggregate_id) # NoPayment

OrchHandler(w, topic) ==
    \/ \E e \in bus :
          /\ e.event_type = topic
          /\ Deliverable(e)
          /\ ConsumerBegin(w, "orchestrator", e, "get")
    \/ /\ Runs("orchestrator")
       /\ UNCHANGED edgeState
       /\ wk[w].ev.event_type = topic
       /\ \/ OrchGet(w)
          \/ _transition(w)
          \/ OrchCommit(w)

handle_risk_approved(w) == OrchHandler(w, "risk.approved")
handle_risk_denied(w) == OrchHandler(w, "risk.denied")
handle_authorized(w) == OrchHandler(w, "payments.authorized")
handle_failed(w) == OrchHandler(w, "payments.failed")
handle_settled(w) == OrchHandler(w, "payments.settled")

----------------------------------------------------------------------------
(* finpay/services/ledger/service.py *)

\* Envelopes that may appear on payments.captured: the orchestrator enqueues
\* one per payment (handle_authorized, once in a payment's life), with the
\* payment's amount; and one whose payload lacks amount_cents.
LedgerEvents ==
    { EventEnvelope(<<"payments.captured", 1, 0>>, "payments.captured", 1,
                    [NoPayload EXCEPT !.amount_cents = 5000,
                                      !.currency = "USD",
                                      !.customer_id = "cust-1"]),
      EventEnvelope(<<"payments.captured", 2, 0>>, "payments.captured", 2,
                    [NoPayload EXCEPT !.amount_cents = 200000,
                                      !.currency = "USD",
                                      !.customer_id = "cust-2"]),
      EventEnvelope(<<"payments.captured", UnknownAggregate, 0>>,
                    "payments.captured", UnknownAggregate, NoPayload) }

\* ensure_accounts: the accounts the service creates at start-up, balance 0
ensure_accounts ==
    [a \in {"customer_cash", "merchant_receivable", "platform_fee", "clearing"}
        |-> 0]

LedgerEntry(tx_id, account_id, direction, amount) ==
    [transaction_id |-> tx_id, account_id |-> account_id,
     direction |-> direction, amount_cents |-> amount]

\* tx_id = f"settlement:{event.aggregate_id}"
SettlementTxId(e) == <<"settlement", e.aggregate_id>>

\* (mutant: only the debit is posted)
SettlementEntries_debit_only(tx_id, amount) ==
    <<LedgerEntry(tx_id, "customer_cash", "DEBIT", amount)>>

\* The rows the two _post_entry calls of handle_captured add to the session.
SettlementEntries(tx_id, amount) ==
    <<LedgerEntry(tx_id, "customer_cash", "DEBIT", amount),
      LedgerEntry(tx_id, "merchant_receivable", "CREDIT", amount)>>

\* _post_entry: account = db.get(Account, account_id); balance -=/+= amount
_post_entry(balance, direction, amount) ==
    IF direction = "DEBIT" THEN balance - amount ELSE balance + amount

\* sum(e.amount_cents for e in rows if e.direction == direction)
RECURSIVE SumAmounts(_, _)
SumAmounts(rows, direction) ==
    IF rows = <<>> THEN 0
    ELSE (IF Head(rows).direction = direction THEN Head(rows).amount_cents ELSE 0)
         + SumAmounts(Tail(rows), direction)

EntriesOf(rows, tx_id) == SelectSeq(rows, LAMBDA r : r.transaction_id = tx_id)

\* handle_captured, lines 98-110: read the amount, post the two entries (the
\* session reads both accounts and holds the new balances), re-read the
\* transaction's entries (autoflush is off: the query sees the committed rows
\* only) and compare the sums.
LedgerPost(w) ==
    /\ wk[w].pc = "post"
    /\ LET e == wk[w].ev
           amount == e.payload.amount_cents
           tx_entries == EntriesOf(entries, SettlementTxId(e))
       IN IF amount = NullInt
          THEN \* KeyError: 'amount_cents'
               wk' = [wk EXCEPT ![w] = Finished(w, "error")]
          ELSE IF SumAmounts(tx_entries, "DEBIT") # SumAmounts(tx_entries, "CREDIT")
          THEN \* ValueError: ledger imbalance detected
               wk' = [wk EXCEPT ![w] = Finished(w, "imbalance")]
          ELSE wk' = [wk EXCEPT
                 ![w].snap = [a \in DOMAIN NoSnapshot |->
                     IF a = "customer_cash"
                     THEN _post_entry(accounts[a], "DEBIT", amount)
                     ELSE _post_entry(accounts[a], "CREDIT", amount)],
                 ![w].pc = "l_commit"]
    /\ UNCHANGED <<svc, bus, stores, dup, nextId, clients, responses>>

\* handle_captured, lines 112-127: _mark_inbox, the payments.settled outbox
\* row, db.commit().  The flush writes the entries, the balances the session
\* holds, the inbox row and the outbox row in one transaction.
LedgerCommit(w) ==
    /\ wk[w].pc = "l_commit"
    /\ LET e == wk[w].ev
           amount == e.payload.amount_cents
       IN IF InboxUniqueViolation("ledger", e.event_id)
          THEN /\ wk' = [wk EXCEPT ![w] = Finished(w, "integrity")]
               /\ UNCHANGED <<entries, accounts, outbox, inbox>>
          ELSE /\ entries' = entries \o SettlementEntries(SettlementTxId(e), amount)
               /\ accounts' = [a \in DOMAIN accounts |->
                     IF a \in DOMAIN wk[w].snap THEN wk[w].snap[a]
                     ELSE accounts[a]]
               /\ outbox' = [outbox EXCEPT !["ledger"] =
                     Append(@, OutboxEvent(@, e.aggregate_id, "payments.settled",
                         [NoPayload EXCEPT !.amount_cents = amount], now))]
               /\ inbox' = [inbox EXCEPT !["ledger"] =
                                _mark_inbox("ledger", e.event_id)]
               /\ wk' = [wk EXCEPT ![w] = Finished(w, "committed")]
    /\ UNCHANGED notLedger
    /\ UNCHANGED <<svc, bus, dup, nextId, clients, responses>>

\* finpay/services/ledger/main.py, reconciliation_report: the transactions
\* whose entries' debits and credits differ (imbalanced_transactions).
reconciliation_report ==
    LET txs == {entries[i].transaction_id : i \in 1..Len(entries)}
    IN {tx \in txs : SumAmounts(EntriesOf(entries, tx), "DEBIT")
                         # SumAmounts(EntriesOf(entries, tx), "CREDIT")}

handle_captured(w) ==
    \/ \E e \in bus :
          /\ e.event_type = "payments.captured"
          /\ ConsumerBegin(w, "ledger", e, "post")
    \/ /\ Runs("ledger")
       /\ UNCHANGED edgeState
       /\ \/ LedgerPost(w)
          \/ LedgerCommit(w)

----------------------------------------------------------------------------
(* alembic/ledger/versions/0002_ledger_immutability.py *)

\* The statements a database client may run against one row of
\* ledger_entries.
RowStatements == {"UPDATE", "DELETE"}

\* What the statement would leave of the table without the trigger: DELETE
\* removes the row, UPDATE sets its amount_cents to 0.
ApplyStatement(TG_OP, rows, i) ==
    IF TG_OP = "DELETE"
    THEN [j \in 1..(Len(rows) - 1) |-> IF j < i THEN rows[j] ELSE rows[j + 1]]
    ELSE [rows EXCEPT ![i].amount_cents = 0]

\* (mutant: the trigger is not installed)
ledger_entries_without_trigger(TG_OP, rows, i) == ApplyStatement(TG_OP, rows, i)

\* trg_ledger_entries_immutable, BEFORE UPDATE OR DELETE ... FOR EACH ROW:
\* prevent_ledger_entry_mutation raises for the row, the statement is
\* aborted and the table is as before.
prevent_ledger_entry_mutation(TG_OP, rows, i) == rows

\* An UPDATE or DELETE of the committed row i of ledger_entries.
ledger_entries_statement(TG_OP, i) ==
    /\ svc = "ledger"
    /\ i \in 1..Len(entries)
    /\ entries' = prevent_ledger_entry_mutation(TG_OP, entries, i)
    /\ called' = [fn |-> "prevent_ledger_entry_mutation",
                  args |-> <<TG_OP, i>>,
                  result |-> IF entries' = entries
                             THEN <<"ledger_entries is append-only", TG_OP>>
                             ELSE <<"done", TG_OP>>]
    /\ UNCHANGED <<accounts, outbox, inbox>>
    /\ UNCHANGED notLedger
    /\ UNCHANGED <<svc, bus, dup, wk, nextId, clients, responses,
                   publisherState, delivered, kv, gw>>

----------------------------------------------------------------------------
(* finpay/services/risk/service.py *)

Customers == {"cust-1", "cust-2"}

\* finpay/common/config.py
risk_velocity_per_hour == 20
risk_review_amount_cents == 100000
risk_deny_frequency_threshold == 50

\* Values the velocity counter of a customer may have when a behaviour
\* starts: no request yet this hour, or as many as one of the thresholds.
VelocityStart == {0, risk_velocity_per_hour, risk_deny_frequency_threshold}

\* Envelopes that may appear on payments.requested.
RiskEvents ==
    { EventEnvelope(<<"payments.requested", 1, 0>>, "payments.requested", 1,
                    [NoPayload EXCEPT !.amount_cents = 5000,
                                      !.currency = "USD",
                                      !.customer_id = "cust-1"]),
      EventEnvelope(<<"payments.requested", 2, 0>>, "payments.requested", 2,
                    [NoPayload EXCEPT !.amount_cents = 200000,
                                      !.currency = "USD",
                                      !.customer_id = "cust-2"]),
      EventEnvelope(<<"payments.requested", UnknownAggregate, 0>>,
                    "payments.requested", UnknownAggregate, NoPayload) }

\* int(self.rdb.get(f"failed_attempts:{customer_id}") or 0): no code of the
\* repository writes the key.
failed_attempts(customer_id) == 0

\* (mutant: the amount is looked at before the frequency)
_rule_decision_amount_first(current_hour_count, failed, amount_cents) ==
    IF amount_cents > risk_review_amount_cents
    THEN <<"REVIEW", "high_amount">>
    ELSE IF current_hour_count > risk_deny_frequency_threshold
    THEN <<"DENY", "high_frequency">>
    ELSE IF failed >= 3
    THEN <<"REVIEW", "multiple_failed_attempts">>
    ELSE IF current_hour_count > risk_velocity_per_hour
    THEN <<"REVIEW", "velocity_threshold">>
    ELSE <<"APPROVE", "rule_passed">>

\* _rule_decision, after the INCR and the GET: current_hour_count is the new
\* counter, failed the value of failed_attempts.
_rule_decision(current_hour_count, failed, amount_cents) ==
    IF current_hour_count > risk_deny_frequency_threshold
    THEN <<"DENY", "high_frequency">>
    ELSE IF amount_cents > risk_review_amount_cents
    THEN <<"REVIEW", "high_amount">>
    ELSE IF failed >= 3
    THEN <<"REVIEW", "multiple_failed_attempts">>
    ELSE IF current_hour_count > risk_velocity_per_hour
    THEN <<"REVIEW", "velocity_threshold">>
    ELSE <<"APPROVE", "rule_passed">>

RiskReview(e, reason) ==
    [payment_id |-> e.aggregate_id, customer_id |-> e.payload.customer_id,
     amount_cents |-> e.payload.amount_cents, reason |-> reason,
     status |-> "PENDING"]

ReviewExists(pid) == \E i \in 1..Len(reviews) : reviews[i].payment_id = pid

\* (mutant: no review row is inserted)
review_never_needed(decision, payment_id) == FALSE

\* if decision == "REVIEW": ... if existing_review is None: db.add(RiskReview)
review_needed(decision, payment_id) ==
    decision = "REVIEW" /\ ~ ReviewExists(payment_id)

\* handle_payment_requested, lines 94-112: read the payload, _rule_decision
\* (INCR of the velocity key in Redis), and for REVIEW the select of the
\* payment's review row.
RiskDecide(w) ==
    /\ wk[w].pc = "decide"
    /\ LET e == wk[w].ev
           c == e.payload.customer_id
       IN IF c = Null \/ e.payload.amount_cents = NullInt
          THEN \* KeyError
               /\ wk' = [wk EXCEPT ![w] = Finished(w, "error")]
               /\ UNCHANGED velocity
          ELSE IF ~ kv
          THEN \* self.rdb.incr raises redis.exceptions.ConnectionError
               /\ wk' = [wk EXCEPT ![w] = Finished(w, "kv_error")]
               /\ UNCHANGED velocity
          ELSE LET count == velocity[c] + 1
                   d == _rule_decision(count, failed_attempts(c),
                                        e.payload.amount_cents)
               IN /\ velocity' = [velocity EXCEPT ![c] = count]
                  /\ wk' = [wk EXCEPT
                        ![w].decision = d,
                        ![w].review = review_needed(d[1], e.aggregate_id),
                        ![w].pc = "r_commit"]
    /\ UNCHANGED <<orchestratorStore, ledgerStore, providerStore,
                   notificationStore, reviews, outbox, inbox>>
    /\ UNCHANGED <<svc, bus, dup, nextId, clients, responses>>

\* (mutant: only DENY goes to risk.denied)
decision_topic_review_approved(decision) ==
    IF decision = "DENY" THEN "risk.denied" ELSE "risk.approved"

\* topic = "risk.approved" if decision == "APPROVE" else "risk.denied"
decision_topic(decision) ==
    IF decision = "APPROVE" THEN "risk.approved" ELSE "risk.denied"

\* handle_payment_requested, lines 113-129: the outbox row, _mark_inbox,
\* db.commit().  risk_reviews.payment_id is unique.
RiskCommit(w) ==
    /\ wk[w].pc = "r_commit"
    /\ LET e == wk[w].ev
           d == wk[w].decision
           topic == decision_topic(d[1])
       IN IF \/ InboxUniqueViolation("risk", e.event_id)
             \/ (wk[w].review /\ ReviewExists(e.aggregate_id))
          THEN /\ wk' = [wk EXCEPT ![w] = Finished(w, "integrity")]
               /\ UNCHANGED <<reviews, outbox, inbox>>
          ELSE /\ reviews' = IF wk[w].review
                             THEN Append(reviews, RiskReview(e, d[2]))
                             ELSE reviews
               /\ outbox' = [outbox EXCEPT !["risk"] =
                     Append(@, OutboxEvent(@, e.aggregate_id, topic,
                         [NoPayload EXCEPT !.decision = d[1],
                                           !.customer_id = e.payload.customer_id],
                         now))]
               /\ inbox' = [inbox EXCEPT !["risk"] =
                                _mark_inbox("risk", e.event_id)]
               /\ wk' = [wk EXCEPT ![w] = Finished(w, "committed")]
    /\ UNCHANGED <<orchestratorStore, ledgerStore, providerStore,
                   notificationStore, velocity>>
    /\ UNCHANGED <<svc, bus, dup, nextId, clients, responses>>

\* (mutant: the review row is left PENDING)
review_status_unchanged(decision) == "PENDING"

\* "APPROVED" if decision == "APPROVE" else "DENIED"
review_status(decision) ==
    IF decision = "APPROVE" THEN "APPROVED" ELSE "DENIED"

\* _decision_error(exc): the HTTP status of a rejected manual decision, chosen
\* by the text of the ValueError.
_decision_error(message) ==
    IF message \in {"payment must be in RISK_REVIEW",
                    "review already finalized"} THEN 409
    ELSE IF message \in {"review not found"} THEN 404
    ELSE 400

\* The rows of risk_reviews manual_decision selects for one payment.
ReviewsOf(payment_id) ==
    {i \in 1..Len(reviews) : reviews[i].payment_id = payment_id}

\* (mutant: the orchestrator is not asked for the payment's status)
orchestrator_status_unchecked(payment_id) == "RISK_REVIEW"

\* _fetch_orchestrator_payment_status(payment_id): the status the orchestrator
\* reports for the payment.
_fetch_orchestrator_payment_status(payment_id) ==
    GetPayment(payment_id).status

\* The ValueError manual_decision raises before it writes anything, or Null.
manual_decision_error(payment_id, decision) ==
    IF decision \notin {"APPROVE", "DENY"}
    THEN "decision must be APPROVE or DENY"
    ELSE IF ReviewsOf(payment_id) = {} THEN "review not found"
    ELSE IF \E i \in ReviewsOf(payment_id) : reviews[i].status # "PENDING"
    THEN "review already finalized"
    ELSE IF _fetch_orchestrator_payment_status(payment_id) # "RISK_REVIEW"
    THEN "payment must be in RISK_REVIEW"
    ELSE Null

\* manual_decision, lines 149-178, as the approve and deny endpoints call it
\* (each request on its own thread and session): the review must exist and be
\* PENDING and the orchestrator must report the payment in RISK_REVIEW;
\* otherwise ValueError, answered with _decision_error's status, and nothing
\* is written.  Otherwise the envelope of the decision is built.  The select
\* is a plain read (no with_for_update): it waits for no other session.
manual_decision_select(w, payment_id, decision) ==
    /\ svc = "all"
    /\ FirstIdle(w)
    /\ LET error == manual_decision_error(payment_id, decision) IN
       IF error # Null
       THEN /\ called' = [fn |-> "manual_decision",
                          args |-> <<payment_id>>,
                          result |-> <<"ValueError", error,
                                       _decision_error(error)>>]
            /\ UNCHANGED wk
       ELSE \E i \in ReviewsOf(payment_id) :
            /\ wk' = Start(w, [IdleWorker EXCEPT
                   !.pc = "m_commit",
                   !.ev = EventEnvelope(NoEventId,
                              IF decision = "APPROVE" THEN "risk.approved"
                                                      ELSE "risk.denied",
                              payment_id,
                              [NoPayload EXCEPT
                                  !.decision = decision,
                                  !.customer_id = reviews[i].customer_id])])
            /\ UNCHANGED called
    /\ UNCHANGED <<reviews, outbox>>

\* manual_decision, lines 179-194: db.add(OutboxEvent), review.status = ...,
\* db.commit().  The UPDATE is keyed on review_id alone and writes the row
\* whatever its status has become.
manual_decision_commit(w) ==
    /\ svc = "all"
    /\ wk[w].pc = "m_commit"
    /\ LET e == wk[w].ev IN
          /\ reviews' = [i \in 1..Len(reviews) |->
                IF reviews[i].payment_id = e.aggregate_id
                THEN [reviews[i] EXCEPT
                         !.status = review_status(e.payload.decision)]
                ELSE reviews[i]]
          /\ outbox' = [outbox EXCEPT !["risk"] =
                 Append(@, OutboxEvent(@, e.aggregate_id, e.event_type,
                                       e.payload, now))]
          /\ called' = [fn |-> "manual_decision",
                        args |-> <<e.aggregate_id>>,
                        result |-> <<"returned", 200>>]
    /\ wk' = [wk EXCEPT ![w] = Finished(w, "committed")]

\* A request for a manual decision on the payment is between its select and
\* its commit.
Deciding(payment_id) ==
    \E o \in Workers :
        wk[o].pc = "m_commit" /\ wk[o].ev.aggregate_id = payment_id

manual_decision(payment_id, decision) ==
    /\ \E w \in Workers :
          \/ manual_decision_select(w, payment_id, decision)
          \/ /\ wk[w].ev.aggregate_id = payment_id
             /\ wk[w].ev.payload.decision = decision
             /\ manual_decision_commit(w)
    /\ UNCHANGED <<orchestratorStore, ledgerStore, providerStore,
                   notificationStore, velocity, inbox>>
    /\ UNCHANGED <<svc, bus, dup, nextId, clients, responses,
                   publisherState, delivered, kv, gw>>

handle_payment_requested(w) ==
    \/ \E e \in bus :
          /\ e.event_type = "payments.requested"
          /\ ConsumerBegin(w, "risk", e, "decide")
    \/ /\ Runs("risk")
       /\ UNCHANGED edgeState
       /\ \/ RiskDecide(w)
          \/ RiskCommit(w)

----------------------------------------------------------------------------
(* finpay/services/provider_adapter/service.py *)

\* Envelopes that may appear on provider.authorize.requested: a request the
\* simulated provider answers at random, one whose customer forces timeouts,
\* one whose customer forces a decline, and one without a currency.
ProviderEvents ==
    { EventEnvelope(<<"provider.authorize.requested", 1, 0>>,
                    "provider.authorize.requested", 1,
                    [NoPayload EXCEPT !.amount_cents = 5000,
                                      !.currency = "USD",
                                      !.customer_id = "cust-1"]),
      EventEnvelope(<<"provider.authorize.requested", 2, 0>>,
                    "provider.authorize.requested", 2,
                    [NoPayload EXCEPT !.amount_cents = 5000,
                                      !.currency = "USD",
                                      !.customer_id = "force-timeout-2"]),
      EventEnvelope(<<"provider.authorize.requested", 3, 0>>,
                    "provider.authorize.requested", 3,
                    [NoPayload EXCEPT !.amount_cents = 5000,
                                      !.currency = "USD",
                                      !.customer_id = "Force-Decline-3"]),
      EventEnvelope(<<"provider.authorize.requested", UnknownAggregate, 0>>,
                    "provider.authorize.requested", UnknownAggregate,
                    [NoPayload EXCEPT !.amount_cents = 5000,
                                      !.customer_id = "cust-1"]) }

\* Requests whose payload the adapter refuses: an empty customer_id, a
\* currency of two letters, an amount of zero and a negative amount.
InvalidRequests ==
    { EventEnvelope(<<"provider.authorize.requested", 1, 1>>,
                    "provider.authorize.requested", 1,
                    [NoPayload EXCEPT !.amount_cents = 5000,
                                      !.currency = "USD",
                                      !.customer_id = ""]),
      EventEnvelope(<<"provider.authorize.requested", 1, 2>>,
                    "provider.authorize.requested", 1,
                    [NoPayload EXCEPT !.amount_cents = 5000,
                                      !.currency = "US",
                                      !.customer_id = "cust-1"]),
      EventEnvelope(<<"provider.authorize.requested", 1, 3>>,
                    "provider.authorize.requested", 1,
                    [NoPayload EXCEPT !.amount_cents = 0,
                                      !.currency = "USD",
                                      !.customer_id = "cust-1"]),
      EventEnvelope(<<"provider.authorize.requested", 1, 4>>,
                    "provider.authorize.requested", 1,
                    [NoPayload EXCEPT !.amount_cents = -5000,
                                      !.currency = "USD",
                                      !.customer_id = "force-timeout-2"]) }

\* (mutant: only the currency is validated)
InvalidReason_currency_only(e) ==
    IF e.payload.currency = Null \/ Len(e.payload.currency) # 3
    THEN "invalid currency"
    ELSE Null

\* _validate_authorize_payload: str(exc) of the ValueError it raises, or Null
\* when it returns.
InvalidReason(e) ==
    IF e.payload.customer_id = Null \/ e.payload.customer_id = ""
    THEN "invalid customer_id"
    ELSE IF e.payload.currency = Null \/ Len(e.payload.currency) # 3
    THEN "invalid currency"
    ELSE IF e.payload.amount_cents = NullInt \/ e.payload.amount_cents <= 0
    THEN "invalid amount_cents"
    ELSE Null

\* _validate_authorize_payload: TRUE when it returns, FALSE when it raises.
_validate_authorize_payload(e) == InvalidReason(e) = Null

\* customer_id.lower().startswith("force-timeout") / ("force-decline")
force_timeout(customer_id) == customer_id \in {"force-timeout-2"}
force_decline(customer_id) == customer_id \in {"Force-Decline-3"}

\* The outcomes one provider call may have.
ProviderOutcomes(customer_id) ==
    IF force_timeout(customer_id) THEN {"TIMEOUT"}
    ELSE IF force_decline(customer_id) THEN {"DECLINE"}
    ELSE {"SUCCESS", "TIMEOUT", "DECLINE"}

\* (mutant: range(1, max_retries), one attempt fewer)
max_retries_one_fewer == 3 - 1

max_retries == 3

ProviderAttempt(pid, n, result, code) ==
    [payment_id |-> pid, attempt_number |-> n, result |-> result,
     error_code |-> code]

\* _enqueue_dlq: the payload of the payments.dlq envelope
DlqPayload(e, reason, error_type, retryable, replay_topic) ==
    [reason |-> reason, error_type |-> error_type, retryable |-> retryable,
     source |-> "provider-adapter", source_event_id |-> e.event_id,
     replay_topic |-> replay_topic,
     failed_event |-> IF replay_topic = Null THEN NoEvent ELSE e]

\* handle_authorize_request, lines 114-133: _mark_inbox, validation, and the
\* first db.commit(): of the inbox row alone, or with the NON_RETRYABLE
\* payments.dlq row when the payload is invalid.
ProviderAccept(w) ==
    /\ wk[w].pc = "accept"
    /\ LET e == wk[w].ev
       IN IF InboxUniqueViolation("provider-adapter", e.event_id)
          THEN /\ wk' = [wk EXCEPT ![w] = Finished(w, "integrity")]
               /\ UNCHANGED <<outbox, inbox>>
          ELSE /\ inbox' = [inbox EXCEPT !["provider-adapter"] =
                                _mark_inbox("provider-adapter", e.event_id)]
               /\ IF _validate_authorize_payload(e)
                  THEN /\ wk' = [wk EXCEPT ![w].pc = "attempt",
                                           ![w].attempt = 1]
                       /\ UNCHANGED outbox
                  ELSE /\ outbox' = [outbox EXCEPT !["provider-adapter"] =
                             Append(@, OutboxEvent(@, e.aggregate_id,
                                 "payments.dlq",
                                 DlqPayload(e, InvalidReason(e),
                                            "NON_RETRYABLE", FALSE, Null), now))]
                       /\ wk' = [wk EXCEPT ![w] = Finished(w, "dropped")]
    /\ UNCHANGED <<notProvider, provider_attempts>>
    /\ UNCHANGED <<svc, bus, dup, nextId, clients, responses>>

\* (mutant: a declined attempt is retried like a timed out one)
after_decline_retried(w) ==
    [wk[w] EXCEPT !.attempt = wk[w].attempt + 1,
                  !.pc = IF wk[w].attempt < max_retries THEN "attempt"
                         ELSE "exhausted"]

\* The return that follows the commit of a DECLINE outcome: the handler ends.
after_decline(w) == Finished(w, "committed")

\* One round of the retry loop, lines 139-223: SUCCESS and DECLINE commit the
\* attempt row with the outcome event and return; TIMEOUT sleeps and goes on.
ProviderTry(w) ==
    /\ wk[w].pc = "attempt"
    /\ \E outcome \in ProviderOutcomes(wk[w].ev.payload.customer_id) :
        LET e == wk[w].ev
            n == wk[w].attempt
        IN CASE outcome = "SUCCESS" ->
                 /\ provider_attempts' = Append(provider_attempts,
                        ProviderAttempt(e.aggregate_id, n, "AUTHORIZED", Null))
                 /\ outbox' = [outbox EXCEPT !["provider-adapter"] =
                        Append(@, OutboxEvent(@, e.aggregate_id,
                            "payments.authorized",
                            [NoPayload EXCEPT !.attempt_number = n], now))]
                 /\ wk' = [wk EXCEPT ![w] = Finished(w, "committed")]
             [] outcome = "DECLINE" ->
                 /\ provider_attempts' = Append(provider_attempts,
                        ProviderAttempt(e.aggregate_id, n, "FAILED",
                                        "PROVIDER_DECLINE"))
                 /\ outbox' = [outbox EXCEPT !["provider-adapter"] =
                        Append(@, OutboxEvent(@, e.aggregate_id,
                            "payments.failed",
                            [NoPayload EXCEPT !.attempt_number = n,
                                              !.error_code = "PROVIDER_DECLINE"],
                            now))]
                 /\ wk' = [wk EXCEPT ![w] = after_decline(w)]
             [] OTHER ->
                 /\ wk' = [wk EXCEPT
                        ![w].attempt = n + 1,
                        ![w].pc = IF n < max_retries THEN "attempt"
                                  ELSE "exhausted"]
                 /\ UNCHANGED <<provider_attempts, outbox>>
    /\ UNCHANGED <<notProvider, inbox>>
    /\ UNCHANGED <<svc, bus, dup, nextId, clients, responses>>

\* After the loop, lines 225-248: payments.failed with PROVIDER_TIMEOUT and
\* the RETRY_EXHAUSTED payments.dlq row, in one transaction.
ProviderExhausted(w) ==
    /\ wk[w].pc = "exhausted"
    /\ LET e == wk[w].ev
           failed == OutboxEvent(outbox["provider-adapter"], e.aggregate_id,
                         "payments.failed",
                         [NoPayload EXCEPT !.attempt_number = max_retries,
                                           !.error_code = "PROVIDER_TIMEOUT"], now)
           withFailed == Append(outbox["provider-adapter"], failed)
       IN outbox' = [outbox EXCEPT !["provider-adapter"] =
              Append(withFailed, OutboxEvent(withFailed, e.aggregate_id,
                  "payments.dlq",
                  DlqPayload(e, "PROVIDER_TIMEOUT", "RETRY_EXHAUSTED", TRUE,
                             "provider.authorize.requested"), now))]
    /\ wk' = [wk EXCEPT ![w] = Finished(w, "committed")]
    /\ UNCHANGED <<notProvider, provider_attempts, inbox>>
    /\ UNCHANGED <<svc, bus, dup, nextId, clients, responses>>

handle_authorize_request(w) ==
    \/ \E e \in bus :
          /\ e.event_type = "provider.authorize.requested"
          /\ ConsumerBegin(w, "provider-adapter", e, "accept")
    \/ /\ Runs("provider-adapter")
       /\ UNCHANGED edgeState
       /\ \/ ProviderAccept(w)
          \/ ProviderTry(w)
          \/ ProviderExhausted(w)

----------------------------------------------------------------------------
(* finpay/services/notification/service.py *)

\* Envelopes that may appear on payments.failed and payments.settled.
NotificationEvents ==
    { EventEnvelope(<<"payments.failed", 1, 0>>, "payments.failed", 1,
                    [NoPayload EXCEPT !.attempt_number = 1,
                                      !.error_code = "PROVIDER_DECLINE"]),
      EventEnvelope(<<"payments.settled", 1, 0>>, "payments.settled", 1,
                    [NoPayload EXCEPT !.amount_cents = 5000]),
      EventEnvelope(<<"payments.settled", 2, 0>>, "payments.settled", 2,
                    [NoPayload EXCEPT !.amount_cents = 200000]) }

\* message = f"Payment {event.aggregate_id} event={event.event_type}"
NotificationLog(e) ==
    [payment_id |-> e.aggregate_id, channel |-> "webhook",
     message |-> <<"Payment", e.aggregate_id, "event=", e.event_type>>]

\* handle_result, lines 43-52: the log row, _mark_inbox, db.commit()
NotificationCommit(w) ==
    /\ wk[w].pc = "n_commit"
    /\ LET e == wk[w].ev
       IN IF InboxUniqueViolation("notification", e.event_id)
          THEN /\ wk' = [wk EXCEPT ![w] = Finished(w, "integrity")]
               /\ UNCHANGED <<notifications, inbox>>
          ELSE /\ notifications' = Append(notifications, NotificationLog(e))
               /\ inbox' = [inbox EXCEPT !["notification"] =
                                _mark_inbox("notification", e.event_id)]
               /\ wk' = [wk EXCEPT ![w] = Finished(w, "committed")]
    /\ UNCHANGED <<notNotification, outbox>>
    /\ UNCHANGED <<svc, bus, dup, nextId, clients, responses>>

\* The handler labels the counter with event.event_type.
handle_result(w) ==
    \/ \E e \in bus :
          /\ e.event_type \in {"payments.failed", "payments.settled"}
          /\ ConsumerBegin(w, "notification", e, "n_commit")
    \/ /\ Runs("notification")
       /\ UNCHANGED edgeState
       /\ NotificationCommit(w)

\* consume_forever, line 123: await consumer.commit() after the batch,
\* whether the handler returned or raised (the `except Exception` of line
\* 115 logs the error and goes on).
consumer_commit(service) ==
    /\ svc = "all"
    /\ Uncommitted(service) # {}
    /\ delivered' = (delivered \ Uncommitted(service))
                        \cup {<<d[1], d[2], TRUE>> : d \in Uncommitted(service)}
    /\ UNCHANGED <<svc, bus, stores, dup, wk, nextId, clients, responses,
                   publisherState, kv, gw, called>>

\* The handler is suspended in an await: the only one inside a handler is
\* asyncio.sleep(backoff_seconds) of the provider adapter, after a TIMEOUT.
Suspended(w) ==
    /\ wk[w].pc \in {"attempt", "exhausted"}
    /\ wk[w].attempt >= 2

\* consumer_task.cancel() (main.lifespan) and a later start: CancelledError
\* is raised at the await the handler is suspended in and is not caught by
\* `except Exception`, so the offsets of the batch are not committed and
\* its envelopes are delivered again.
consumer_restart(service) ==
    /\ svc = "all"
    /\ \E w \in Workers : ServiceOf(wk[w].pc) = service /\ Suspended(w)
    /\ \A w \in Workers :
          (ServiceOf(wk[w].pc) = service /\ wk[w].ev # NoEvent) => Suspended(w)
    /\ wk' = [w \in Workers |->
                IF ServiceOf(wk[w].pc) = service /\ wk[w].ev # NoEvent
                THEN Finished(w, "cancelled") ELSE wk[w]]
    /\ delivered' = {d \in delivered : d[1] # service \/ d[3]}
    /\ UNCHANGED <<svc, bus, stores, dup, nextId, clients, responses,
                   publisherState, kv, gw, called>>

\* Redis becomes unreachable, and reachable again.
redis_down ==
    /\ svc = "all"
    /\ kv
    /\ kv' = FALSE
    /\ UNCHANGED <<svc, bus, stores, dup, wk, nextId, clients, responses,
                   publisherState, delivered, gw, called>>

redis_up ==
    /\ svc = "all"
    /\ ~ kv
    /\ kv' = TRUE
    /\ UNCHANGED <<svc, bus, stores, dup, wk, nextId, clients, responses,
                   publisherState, delivered, gw, called>>

\* start_consumers of each service: the envelopes its topics may carry
Subscribed(service) ==
    CASE service = "orchestrator"     -> OrchestratorEvents
      [] service = "risk"             -> RiskEvents
      [] service = "provider-adapter" -> ProviderEvents
      [] service = "ledger"           -> LedgerEvents
      [] service = "notification"     -> NotificationEvents

----------------------------------------------------------------------------
(* finpay/common/outbox.py and the outbox_publisher loop every service runs
   (one per replica of the service) *)

Publishers == {"p1", "p2"}

processing_timeout_seconds == 30
claim_limit == 100

IdlePublisher == [pc |-> "claim", batch |-> <<>>]

\* The service whose outbox publisher p drains: in the saga every service
\* runs its own loop, named after it.
OutboxOf(p) == IF p \in Services THEN p ELSE svc

\* (mutant: a PROCESSING row is claimed at any age)
Claimable_at_any_age(row) == row.status \in {"PENDING", "PROCESSING"}

\* The WHERE clause of claim_outbox_batch.
Claimable(row) ==
    \/ row.status = "PENDING"
    \/ /\ row.status = "PROCESSING"
       /\ row.sent_at # NullInt
       /\ row.sent_at < now - processing_timeout_seconds

\* ORDER BY created_at LIMIT :limit, the ids in the order RETURNING yields
\* them: any order of the oldest claimable rows that follows created_at.
ClaimBatches(rows) ==
    LET ids == {i \in 1..Len(rows) : Claimable(rows[i])}
        n == IF Cardinality(ids) < claim_limit THEN Cardinality(ids)
             ELSE claim_limit
    IN {b \in [1..n -> ids] :
          /\ \A i, j \in 1..n : i < j =>
                /\ b[i] # b[j]
                /\ rows[b[i]].created_at <= rows[b[j]].created_at
          /\ \A k \in ids : (\A i \in 1..n : b[i] # k) =>
                \A i \in 1..n : rows[b[i]].created_at <= rows[k].created_at}

\* claim_outbox_batch and the commit: the rows become PROCESSING, sent_at now
claim_outbox_batch(p) ==
    /\ pub[p].pc = "claim"
    /\ \E b \in ClaimBatches(outbox[OutboxOf(p)]) :
        /\ outbox' = [outbox EXCEPT ![OutboxOf(p)] =
              [i \in 1..Len(@) |->
                  IF \E k \in 1..Len(b) : b[k] = i
                  THEN [@[i] EXCEPT !.status = "PROCESSING", !.sent_at = now]
                  ELSE @[i]]]
        /\ pub' = [pub EXCEPT ![p] =
              [pc |-> IF Len(b) = 0 THEN "claim" ELSE "publish", batch |-> b]]
    /\ UNCHANGED <<svc, bus, orchestratorStore, ledgerStore, riskStore,
                   providerStore, notificationStore, inbox, dup, wk, nextId,
                   clients, responses, now, failures>>

\* await self.kafka.publish(row["topic"], EventEnvelope(**row["payload"])):
\* the broker acknowledges, or the call raises.
MaxFailures == 1

\* (mutant: the exception of a failed publish is swallowed)
after_publish_error_marks == "mark"

\* except Exception: ... requeue_outbox_event(db, OutboxEvent, row["id"])
after_publish_error == "requeue"

publish(p) ==
    /\ pub[p].pc = "publish"
    /\ \/ /\ bus' = bus \cup {outbox[OutboxOf(p)][Head(pub[p].batch)].payload}
          /\ pub' = [pub EXCEPT ![p].pc = "mark"]
          /\ UNCHANGED failures
       \/ /\ failures < MaxFailures
          /\ failures' = failures + 1
          /\ pub' = [pub EXCEPT ![p].pc = after_publish_error]
          /\ UNCHANGED bus
    /\ UNCHANGED <<svc, stores, dup, wk, nextId, clients, responses, now>>

\* The publisher goes on to the next row of its batch, or to the next claim.
NextRow(p) ==
    [pc |-> IF Len(pub[p].batch) = 1 THEN "claim" ELSE "publish",
     batch |-> Tail(pub[p].batch)]

\* (mutant: the failed row is left as it is)
requeue_outbox_event_noop(rows, id) == rows

\* requeue_outbox_event: UPDATE ... WHERE id = :id AND status = 'PROCESSING'
requeue_outbox_event(rows, id) ==
    [i \in 1..Len(rows) |->
        IF i = id /\ rows[i].status = "PROCESSING"
        THEN [rows[i] EXCEPT !.status = "PENDING", !.sent_at = NullInt]
        ELSE rows[i]]

\* (mutant: the UPDATE is keyed on the id alone)
mark_outbox_sent_any_status(rows, id) ==
    [i \in 1..Len(rows) |->
        IF i = id THEN [rows[i] EXCEPT !.status = "SENT", !.sent_at = now]
        ELSE rows[i]]

\* mark_outbox_sent: UPDATE ... WHERE id = :id AND status = 'PROCESSING'
mark_outbox_sent(rows, id) ==
    [i \in 1..Len(rows) |->
        IF i = id /\ rows[i].status = "PROCESSING"
        THEN [rows[i] EXCEPT !.status = "SENT", !.sent_at = now]
        ELSE rows[i]]

PublisherMark(p) ==
    /\ pub[p].pc = "mark"
    /\ outbox' = [outbox EXCEPT ![OutboxOf(p)] =
                      mark_outbox_sent(@, Head(pub[p].batch))]
    /\ pub' = [pub EXCEPT ![p] = NextRow(p)]
    /\ UNCHANGED <<svc, bus, orchestratorStore, ledgerStore, riskStore,
                   providerStore, notificationStore, inbox, dup, wk, nextId,
                   clients, responses, now, failures>>

PublisherRequeue(p) ==
    /\ pub[p].pc = "requeue"
    /\ outbox' = [outbox EXCEPT ![OutboxOf(p)] =
                      requeue_outbox_event(@, Head(pub[p].batch))]
    /\ pub' = [pub EXCEPT ![p] = NextRow(p)]
    /\ UNCHANGED <<svc, bus, orchestratorStore, ledgerStore, riskStore,
                   providerStore, notificationStore, inbox, dup, wk, nextId,
                   clients, responses, now, failures>>

\* One iteration step of `while True` in outbox_publisher.
outbox_publisher(p) ==
    /\ UNCHANGED edgeState
    /\ \/ claim_outbox_batch(p)
       \/ publish(p)
       \/ PublisherMark(p)
       \/ PublisherRequeue(p)

\* The process of a publisher is killed wherever it is, and started again:
\* the rows it had claimed stay PROCESSING, the new task begins with a claim.
publisher_restart(p) ==
    /\ pub[p].pc # "claim"
    /\ pub' = [pub EXCEPT ![p] = IdlePublisher]
    /\ UNCHANGED <<svc, bus, stores, dup, wk, nextId, clients, responses,
                   now, failures, edgeState>>

\* Time passes.
TickSeconds == 31
MaxNow == 62

Tick ==
    /\ now + TickSeconds <= MaxNow
    /\ now' = now + TickSeconds
    /\ UNCHANGED <<svc, bus, stores, dup, wk, nextId, clients, responses,
                   pub, failures, edgeState>>

----------------------------------------------------------------------------
(* finpay/services/api_gateway/main.py *)

MaxPosts == 2         \* POST /payments calls the clients make

rate_limit_per_minute == 30

\* Tokens are counted in halves, so that the refill of capacity / 60 tokens
\* per second is a whole number for whole seconds.
HalfTokens(n) == 2 * n

\* hmget returns (None, None) for a key that is not there.
NoBucket == [tokens |-> NullInt, updated_at |-> NullInt]

\* No function has been called.
NoCall == [fn |-> "none", args |-> <<>>, result |-> <<>>]

IdleGateway ==
    [bucket |-> [c \in {"cust-1", "cust-2"} |-> NoBucket],
     cache |-> {}, calls |-> {}, replies |-> {}, posts |-> 0]

\* enforce_token_bucket, lines 95-104: the tokens after the refill.
RefilledTokens(customer_id) ==
    LET b == gw.bucket[customer_id]
        capacity == HalfTokens(rate_limit_per_minute)
        tokens == IF b.tokens = NullInt THEN capacity ELSE b.tokens
        updated_at == IF b.updated_at = NullInt THEN now ELSE b.updated_at
        elapsed == IF now > updated_at THEN now - updated_at ELSE 0
        refilled == tokens + (elapsed * capacity) \div 60
    IN IF refilled < capacity THEN refilled ELSE capacity

GatewayReply(req, status) ==
    [gw EXCEPT !.replies = @ \cup {<<req.idempotency_key, status>>},
               !.posts = @ + 1]

\* create_payment, lines 134-135: enforce_api_key, enforce_token_bucket.  The
\* bucket is read with rdb.hmget outside any try: a Redis error leaves the
\* endpoint as an unhandled exception (HTTP 500).
gateway_admit(req, key_ok) ==
    /\ svc = "all"
    /\ gw.posts < MaxPosts
    /\ IF ~ key_ok
       THEN gw' = GatewayReply(req, 401)
       ELSE IF ~ kv
       THEN gw' = GatewayReply(req, 500)
       ELSE LET tokens == RefilledTokens(req.customer_id)
            IN IF tokens < HalfTokens(1)
               THEN gw' = [GatewayReply(req, 429) EXCEPT
                              !.bucket[req.customer_id] =
                                  [tokens |-> tokens, updated_at |-> now]]
               ELSE gw' = [gw EXCEPT
                              !.bucket[req.customer_id] =
                                  [tokens |-> tokens - HalfTokens(1),
                                   updated_at |-> now],
                              !.calls = @ \cup {[req |-> req, pc |-> "admitted"]},
                              !.posts = @ + 1]
    /\ UNCHANGED <<svc, bus, stores, dup, wk, nextId, clients, responses,
                   publisherState, delivered, kv, called>>

\* The cached reply of _idempotency_cache_key(customer_id, idempotency_key)
CachedReplies(req) ==
    {c \in gw.cache : c[1] = req.customer_id /\ c[2] = req.idempotency_key}

\* create_payment, lines 139-154: the cache read (a Redis error is logged
\* and ignored), then the POST to the orchestrator's /internal/payments.
gateway_forward(call) ==
    /\ call \in gw.calls
    /\ call.pc = "admitted"
    /\ IF kv /\ CachedReplies(call.req) # {}
       THEN /\ gw' = [gw EXCEPT
                  !.calls = @ \ {call},
                  !.replies = @ \cup
                      {<<call.req.idempotency_key, c[3]>> :
                          c \in CachedReplies(call.req)}]
            /\ UNCHANGED clients
       ELSE /\ gw' = [gw EXCEPT
                  !.calls = (@ \ {call}) \cup {[call EXCEPT !.pc = "forwarded"]}]
            /\ clients' = clients \cup {call.req}
    /\ UNCHANGED <<svc, bus, stores, dup, wk, nextId, responses,
                   publisherState, delivered, kv, called>>

\* create_payment, lines 155-163: a status >= 400 of the orchestrator is
\* passed on; otherwise the payload is cached (a Redis error is logged and
\* ignored) and returned.
gateway_return(call) ==
    /\ call \in gw.calls
    /\ call.pc = "forwarded"
    /\ \E r \in responses :
        /\ r[1] = call.req.idempotency_key
        /\ gw' = [gw EXCEPT
              !.calls = @ \ {call},
              !.replies = @ \cup {r},
              !.cache = IF kv /\ r[2] < 400
                        THEN @ \cup {<<call.req.customer_id,
                                       call.req.idempotency_key, r[2]>>}
                        ELSE @]
    /\ UNCHANGED <<svc, bus, stores, dup, wk, nextId, clients, responses,
                   publisherState, delivered, kv, called>>

\* POST /payments
gateway_create_payment ==
    \/ \E req \in Requests, key_ok \in BOOLEAN : gateway_admit(req, key_ok)
    \/ \E call \in gw.calls : gateway_forward(call)
    \/ \E call \in gw.calls : gateway_return(call)

----------------------------------------------------------------------------
(* Properties *)

OfPayment(rows, pid) == SelectSeq(rows, LAMBDA r : r.payment_id = pid)

\* The transition table of section 4.4 of the specification.
SpecTable ==
    [s \in STATUSES |->
        CASE s = "CREATED"     -> {"RISK_REVIEW", "APPROVED", "FAILED"}
          [] s = "RISK_REVIEW" -> {"APPROVED", "FAILED"}
          [] s = "APPROVED"    -> {"AUTHORIZED", "FAILED"}
          [] s = "AUTHORIZED"  -> {"CAPTURED", "FAILED", "REVERSED"}
          [] s = "CAPTURED"    -> {"SETTLED", "FAILED", "REVERSED"}
          [] s = "FAILED"      -> {"REVERSED"}
          [] OTHER             -> {}]

C2_VersionState ==
    \A i \in 1..Len(payments) :
        payments[i].state_version
            = Len(OfPayment(timeline, payments[i].payment_id)) - 1

C2_VersionStep ==
    \A pid \in PaymentIds :
        LET old == GetPayment(pid)
            new == GetPayment(pid)'
            added == Len(OfPayment(timeline, pid)') - Len(OfPayment(timeline, pid))
        IN /\ (old = NoPayment /\ new # NoPayment) =>
                  new.state_version = 0 /\ new.status = "CREATED"
           /\ old # NoPayment =>
                  /\ (new.status # old.status) <=> (new.state_version # old.state_version)
                  /\ new.state_version - old.state_version = added
                  /\ added \in {0, 1, 2}

C2_VersionCountsTransitions == []C2_VersionState /\ [][C2_VersionStep]_vars

\* A payment that went CREATED, APPROVED, then AUTHORIZED and CAPTURED in one
\* handler: version 3.
C2_Witness ==
    \E i \in 1..Len(payments) :
        payments[i].status = "CAPTURED" /\ payments[i].state_version = 3

\* C3: the timeline rows of a payment form one chain: the first row is
\* (nil, CREATED), every later row starts where the previous one ended, and
\* the last row ends in the payment's current status.
C3_TimelineChain ==
    /\ \A i \in 1..Len(timeline) : GetPayment(timeline[i].payment_id) # NoPayment
    /\ \A i \in 1..Len(payments) :
        LET rows == OfPayment(timeline, payments[i].payment_id)
        IN /\ Len(rows) >= 1
           /\ rows[1].from_state = Null /\ rows[1].to_state = "CREATED"
           /\ \A k \in 2..Len(rows) : rows[k].from_state = rows[k - 1].to_state
           /\ rows[Len(rows)].to_state = payments[i].status

\* A chain of four rows ending in REVERSED via RISK_REVIEW.
C3_Witness ==
    \E i \in 1..Len(payments) :
        LET rows == OfPayment(timeline, payments[i].payment_id)
        IN /\ Len(rows) = 4
           /\ rows[2].to_state = "RISK_REVIEW"
           /\ payments[i].status = "REVERSED"

\* C4: of two handler executions that read the same (status, state_version)
\* of a payment and both ran the conditional update, at most one has its
\* update applied; once both have ended, exactly one committed and the other
\* ended with the concurrency conflict, having persisted nothing, so that the
\* version read has exactly one successor row in the timeline.
Raced(a, b) ==
    /\ a.tried /\ b.tried
    /\ a.base # NoPayment /\ a.base = b.base

Won(a) == a.locked \/ a.res = "committed"

C4_OneWinner ==
    \A w1, w2 \in Workers :
        (w1 # w2 /\ Raced(wk[w1], wk[w2])) =>
            /\ ~ (Won(wk[w1]) /\ Won(wk[w2]))
            /\ (wk[w1].pc = "idle" /\ wk[w2].pc = "idle") =>
                  /\ {wk[w1].res, wk[w2].res} = {"committed", "conflict"}
                  /\ LET rows == OfPayment(timeline, wk[w1].base.payment_id)
                     IN /\ Len(rows) >= wk[w1].base.state_version + 2
                        /\ rows[wk[w1].base.state_version + 2].from_state
                               = wk[w1].base.status
                        /\ GetPayment(wk[w1].base.payment_id).state_version
                               = Len(rows) - 1

\* Both executions ended: one committed, the other met the conflict.
C4_Witness ==
    \E w1, w2 \in Workers :
        /\ w1 # w2 /\ Raced(wk[w1], wk[w2])
        /\ wk[w1].res = "committed" /\ wk[w2].res = "conflict"

\* The inbox of a service holds a committed row for the event.
InboxHas(service, eid) ==
    \E i \in 1..Len(inbox[service]) :
        /\ inbox[service][i].event_id = eid
        /\ inbox[service][i].consumed_by_service = service

\* C5: a handler that is handed an event whose inbox row is committed goes
\* no further than the inbox check; the duplicate branch changes no table,
\* outbox, inbox or Redis counter and adds exactly 1 to
\* duplicate_events_skipped of that service and the event's topic; the
\* counter changes in no other step.
C5_Delivered(w) ==
    /\ wk[w].pc = "idle"
    /\ wk'[w].pc # "idle"
    /\ wk'[w].ev # NoEvent

C5_Step ==
    /\ \A w \in Workers :
          C5_Delivered(w) => ~ InboxHas(svc, wk'[w].ev.event_id)
    /\ dup' # dup =>
          /\ stores' = stores
          /\ \A w \in Workers : wk'[w].pc = wk[w].pc
          /\ \E e \in bus :
                /\ InboxHas(svc, e.event_id)
                /\ dup' = [dup EXCEPT ![svc][e.event_type] = @ + 1]

C5_DuplicateChangesNothing == [][C5_Step]_vars

\* The risk service skipped a redelivered payments.requested whose first
\* delivery had opened a review.
C5_Witness ==
    /\ svc = "risk"
    /\ dup["risk"]["payments.requested"] = 1
    /\ Len(reviews) = 1
    /\ Len(inbox["risk"]) = 1

\* C6: no inbox holds two rows with the same (event_id,
\* consumed_by_service); and a handler execution that finds, when it writes,
\* the inbox row of its event committed by another execution, commits
\* nothing.
C6_InboxUnique ==
    \A s \in Services :
        \A i, j \in 1..Len(inbox[s]) :
            (inbox[s][i].event_id = inbox[s][j].event_id
             /\ inbox[s][i].consumed_by_service = inbox[s][j].consumed_by_service)
                => i = j

\* The tables of the databases (Redis is not transactional).
tables ==
    <<orchestratorStore, ledgerStore, reviews, providerStore,
      notificationStore, outbox, inbox>>

\* The provider adapter works on after its own inbox row is committed.
OwnInboxCommitted == {"attempt", "exhausted"}

C6_LoserStep ==
    \A w \in Workers :
        (/\ wk[w].ev # NoEvent
         /\ wk'[w] # wk[w]
         /\ wk[w].pc \notin OwnInboxCommitted
         /\ InboxHas(svc, wk[w].ev.event_id)) => tables' = tables

C6_OneInboxRowPerEvent == []C6_InboxUnique /\ [][C6_LoserStep]_vars

\* Two executions handled the one event of the log concurrently in the
\* provider adapter: one committed the inbox row and went on to its effects,
\* the other failed on the primary key.
C6_Witness ==
    /\ svc = "provider-adapter"
    /\ Len(inbox["provider-adapter"]) = 1
    /\ Len(outbox["provider-adapter"]) = 1
    /\ \E w1, w2 \in Workers :
          wk[w1].res = "committed" /\ wk[w2].res = "integrity"

\* C7: with a bus that fails finitely many publishes and publisher loops
\* that keep running, every row of the outbox eventually has status SENT,
\* also a row whose publish failed and which was requeued.
C7_EverySent ==
    \A i \in 1..Cardinality(LedgerEvents) :
        (Len(outbox[svc]) >= i)
            ~> (Len(outbox[svc]) >= i /\ outbox[svc][i].status = "SENT")

\* The only row of the outbox is SENT after the bus had failed MaxFailures
\* publishes of it.
C7_Witness ==
    /\ Len(outbox[svc]) = 1
    /\ outbox[svc][1].status = "SENT"
    /\ failures = MaxFailures
    /\ \A p \in Publishers : pub[p].pc = "claim"

\* C8: in every committed state, the debits and the credits of every
\* transaction_id of the ledger are equal: the reconciliation report lists no
\* imbalanced transaction.
C8_LedgerBalanced ==
    /\ reconciliation_report = {}
    /\ \A i \in 1..Len(entries) :
         LET rows == EntriesOf(entries, entries[i].transaction_id)
         IN SumAmounts(rows, "DEBIT") = SumAmounts(rows, "CREDIT")

\* Two settlements are posted, and an execution that raced one of them was
\* rolled back.
C8_Witness ==
    /\ Len(entries) = 4
    /\ Cardinality({entries[i].transaction_id : i \in 1..Len(entries)}) = 2
    /\ \E w \in Workers : wk[w].res = "integrity"

\* C9: for every payments.captured event, once the ledger has consumed it
\* (however often it was delivered, one after the other or concurrently) the
\* ledger holds exactly one DEBIT on customer_cash and one CREDIT on
\* merchant_receivable for "settlement:" + aggregate_id, both of the event's
\* amount, and exactly one payments.settled outbox row; before, it holds
\* none.
C9_SettledRows(e) ==
    SelectSeq(outbox["ledger"],
              LAMBDA o : o.topic = "payments.settled"
                         /\ o.aggregate_id = e.aggregate_id)

C9_OnePairPerEvent ==
    \A e \in LedgerEvents :
        LET rows == EntriesOf(entries, SettlementTxId(e))
        IN IF InboxHas("ledger", e.event_id)
           THEN /\ Len(rows) = 2
                /\ \E i, j \in 1..2 :
                     /\ rows[i] = LedgerEntry(SettlementTxId(e), "customer_cash",
                                      "DEBIT", e.payload.amount_cents)
                     /\ rows[j] = LedgerEntry(SettlementTxId(e),
                                      "merchant_receivable", "CREDIT",
                                      e.payload.amount_cents)
                /\ Len(C9_SettledRows(e)) = 1
           ELSE /\ rows = <<>>
                /\ C9_SettledRows(e) = <<>>

\* One event was handled by two concurrent executions (one was rolled back)
\* and then delivered once more (skipped): one pair, one outbox row.
C9_Witness ==
    /\ svc = "ledger"
    /\ Len(entries) = 2
    /\ Len(outbox["ledger"]) = 1
    /\ dup["ledger"]["payments.captured"] = 1
    /\ \E w \in Workers : wk[w].res = "integrity"

\* C10 (as claimed): every request with one idempotency_key gets the same
\* payment_id as its response, and the store holds one Payment row, one
\* creation row and one payments.requested row for the key.
RowsOfKey(key) == {i \in 1..Len(payments) : payments[i].idempotency_key = key}

C10_SamePaymentIdForKey ==
    \A r \in Requests :
        LET key == r.idempotency_key
            got == {x \in responses : x[1] = key}
        IN got # {} =>
            /\ Cardinality(RowsOfKey(key)) = 1
            /\ \A x \in got : x[2] = payments[CHOOSE i \in RowsOfKey(key) : TRUE].payment_id
            /\ \A i \in RowsOfKey(key) :
                 /\ Len(SelectSeq(OfPayment(timeline, payments[i].payment_id),
                                  LAMBDA t : t.from_state = Null)) = 1
                 /\ Len(SelectSeq(outbox["orchestrator"],
                                  LAMBDA o : o.topic = "payments.requested"
                                     /\ o.aggregate_id = payments[i].payment_id)) = 1

----------------------------------------------------------------------------
Init ==
    /\ svc \in Services
    /\ bus \in SUBSET Subscribed(svc)
    /\ clients \in SUBSET (IF svc = "orchestrator" THEN Requests ELSE {})
    /\ Cardinality(bus) + Cardinality(clients) <= MaxInputs
    /\ payments = <<>>
    /\ timeline = <<>>
    /\ attempts = <<>>
    /\ entries = <<>>
    /\ accounts = ensure_accounts
    /\ reviews = <<>>
    /\ velocity \in (IF svc = "risk" THEN [Customers -> VelocityStart]
                     ELSE {[c \in Customers |-> 0]})
    /\ provider_attempts = <<>>
    /\ notifications = <<>>
    /\ outbox = [s \in Services |-> <<>>]
    /\ inbox = [s \in Services |-> <<>>]
    /\ dup = [s \in Services |-> [t \in Topics |-> 0]]
    /\ wk = [w \in Workers |-> IdleWorker]
    /\ nextId = 0
    /\ responses = {}
    /\ pub = [p \in Publishers |-> IdlePublisher]
    /\ now = 0
    /\ failures = 0
    /\ delivered = {}
    /\ kv = TRUE
    /\ gw = IdleGateway
    /\ called = NoCall

\* The handlers of the service the behaviour follows.
Next ==
    \E w \in Workers :
        \/ create_payment(w) /\ UNCHANGED publisherState
        \/ handle_risk_approved(w) /\ UNCHANGED publisherState
        \/ handle_risk_denied(w) /\ UNCHANGED publisherState
        \/ handle_authorized(w) /\ UNCHANGED publisherState
        \/ handle_failed(w) /\ UNCHANGED publisherState
        \/ handle_settled(w) /\ UNCHANGED publisherState
        \/ handle_captured(w) /\ UNCHANGED publisherState
        \/ handle_payment_requested(w) /\ UNCHANGED publisherState
        \/ handle_authorize_request(w) /\ UNCHANGED publisherState
        \/ handle_result(w) /\ UNCHANGED publisherState

Spec == Init /\ [][Next]_vars

\* The ledger with its outbox publishers: handle_captured enqueues the rows,
\* two publisher replicas publish them, the bus fails at most MaxFailures
\* publishes and acknowledges every later one, and no publisher stops.
PublisherInit ==
    /\ Init
    /\ svc = "ledger"
    /\ bus # {}
    /\ \A e \in bus : e.aggregate_id # UnknownAggregate

PublisherNext ==
    \/ handle_captured("w1") /\ UNCHANGED publisherState
    \/ \E p \in Publishers : outbox_publisher(p)
    \/ Tick

PublisherSpec ==
    /\ PublisherInit
    /\ [][PublisherNext]_vars
    /\ \A p \in Publishers : WF_vars(outbox_publisher(p))

\* The same publishers when their processes may be killed and started again.
ClaimNext ==
    \/ PublisherNext
    \/ \E p \in Publishers : publisher_restart(p) /\ UNCHANGED edgeState

ClaimSpec == PublisherInit /\ [][ClaimNext]_vars

----------------------------------------------------------------------------
(* The saga: every service runs its consumers and its outbox publisher, the
   bus acknowledges every publish, Redis answers, no task is cancelled. *)

\* The services that have an outbox (notification has none).
OutboxServices == {"orchestrator", "risk", "provider-adapter", "ledger"}

SagaInit ==
    /\ svc = "all"
    /\ bus = {}
    /\ clients = Requests
    /\ payments = <<>>
    /\ timeline = <<>>
    /\ attempts = <<>>
    /\ entries = <<>>
    /\ accounts = ensure_accounts
    /\ reviews = <<>>
    /\ velocity \in {[c \in Customers |-> v] : v \in VelocityStart}
    /\ provider_attempts = <<>>
    /\ notifications = <<>>
    /\ outbox = [s \in Services |-> <<>>]
    /\ inbox = [s \in Services |-> <<>>]
    /\ dup = [s \in Services |-> [t \in Topics |-> 0]]
    /\ wk = [w \in Workers |-> IdleWorker]
    /\ nextId = 0
    /\ responses = {}
    /\ pub = [s \in OutboxServices |-> IdlePublisher]
    /\ now = 0
    /\ failures = MaxFailures
    /\ delivered = {}
    /\ kv = TRUE
    /\ gw = IdleGateway
    /\ called = NoCall

\* A publisher writes status and sent_at of outbox rows and adds envelopes to
\* the log; a handler appends outbox rows and reads envelopes that are on
\* the log already.  Their steps commute, so the saga orders them: a
\* publisher finishes its batch and a consumer commits its offsets before
\* the next handler step.
\* One operator decides the reviews: a request for a decision is sent after
\* the answer to the one before.
OneOperator(payment_id, step) ==
    /\ step
    /\ Deciding(payment_id) => ~ Deciding(payment_id)'

PublishersIdle == \A p \in DOMAIN pub : pub[p].pc = "claim"
OffsetsCommitted == \A s \in Services : Uncommitted(s) = {}
InTurn(step) ==
    /\ PublishersIdle
    /\ OffsetsCommitted
    /\ step
    /\ UNCHANGED publisherState

SagaNext ==
    \/ \E w \in Workers : InTurn(create_payment(w))
    \/ \E w \in Workers : InTurn(handle_payment_requested(w))
    \/ \E d \in {"APPROVE", "DENY"} : OneOperator(1, manual_decision(1, d))
    \/ \E w \in Workers : InTurn(handle_risk_approved(w))
    \/ \E w \in Workers : InTurn(handle_risk_denied(w))
    \/ \E w \in Workers : InTurn(handle_authorize_request(w))
    \/ \E w \in Workers : InTurn(handle_authorized(w))
    \/ \E w \in Workers : InTurn(handle_failed(w))
    \/ \E w \in Workers : InTurn(handle_captured(w))
    \/ \E w \in Workers : InTurn(handle_settled(w))
    \/ \E w \in Workers : InTurn(handle_result(w))
    \/ \E s \in Services : consumer_commit(s)
    \/ \E p \in OutboxServices : outbox_publisher(p)

\* The saga with several operators: the approve and deny endpoints are
\* called concurrently (each request runs manual_decision on its own thread
\* of the worker pool).
OperatorsNext ==
    \/ \E d \in {"APPROVE", "DENY"} : manual_decision(1, d)
    \/ SagaNext

OperatorsSpec == SagaInit /\ [][OperatorsNext]_vars

\* Every loop keeps running: the consumers and the publishers are tasks
\* that never end, and the operator decides every pending review.
SagaFairness ==
    /\ \A w \in Workers :
        /\ WF_vars(InTurn(create_payment(w)))
        /\ WF_vars(InTurn(handle_payment_requested(w)))
        /\ WF_vars(InTurn(handle_risk_approved(w)))
        /\ WF_vars(InTurn(handle_risk_denied(w)))
        /\ WF_vars(InTurn(handle_authorize_request(w)))
        /\ WF_vars(InTurn(handle_authorized(w)))
        /\ WF_vars(InTurn(handle_failed(w)))
        /\ WF_vars(InTurn(handle_captured(w)))
        /\ WF_vars(InTurn(handle_settled(w)))
        /\ WF_vars(InTurn(handle_result(w)))
    /\ \A s \in Services : WF_vars(consumer_commit(s))
    /\ \A p \in OutboxServices : WF_vars(outbox_publisher(p))
    /\ WF_vars(\E d \in {"APPROVE", "DENY"} :
                      OneOperator(1, manual_decision(1, d)))

SagaSpec == SagaInit /\ [][SagaNext]_vars /\ SagaFairness

----------------------------------------------------------------------------
(* The saga with faults: clients post through the API gateway, Redis may
   become unreachable and reachable again, and the consumer tasks of a
   service may be cancelled and started again. *)

FaultInit ==
    /\ svc = "all"
    /\ bus = {}
    /\ clients = {}
    /\ payments = <<>>
    /\ timeline = <<>>
    /\ attempts = <<>>
    /\ entries = <<>>
    /\ accounts = ensure_accounts
    /\ reviews = <<>>
    /\ velocity \in {[c \in Customers |-> v] : v \in VelocityStart}
    /\ provider_attempts = <<>>
    /\ notifications = <<>>
    /\ outbox = [s \in Services |-> <<>>]
    /\ inbox = [s \in Services |-> <<>>]
    /\ dup = [s \in Services |-> [t \in Topics |-> 0]]
    /\ wk = [w \in Workers |-> IdleWorker]
    /\ nextId = 0
    /\ responses = {}
    /\ pub = [s \in OutboxServices |-> IdlePublisher]
    /\ now = 0
    /\ failures = MaxFailures
    /\ delivered = {}
    /\ kv = TRUE
    /\ gw = IdleGateway
    /\ called = NoCall

\* The handler calls of the saga with faults run one after the other (the
\* handlers of different services share no table).
FaultWorkers == {"w1"}

FaultNext ==
    \/ InTurn(gateway_create_payment)
    \/ InTurn(redis_down)
    \/ InTurn(redis_up)
    \/ \E s \in Services : InTurn(consumer_restart(s))
    \/ \E w \in FaultWorkers : InTurn(create_payment(w))
    \/ \E w \in FaultWorkers : InTurn(handle_payment_requested(w))
    \/ \E d \in {"APPROVE", "DENY"} : OneOperator(1, manual_decision(1, d))
    \/ \E w \in FaultWorkers : InTurn(handle_risk_approved(w))
    \/ \E w \in FaultWorkers : InTurn(handle_risk_denied(w))
    \/ \E w \in FaultWorkers : InTurn(handle_authorize_request(w))
    \/ \E w \in FaultWorkers : InTurn(handle_authorized(w))
    \/ \E w \in FaultWorkers : InTurn(handle_failed(w))
    \/ \E w \in FaultWorkers : InTurn(handle_captured(w))
    \/ \E w \in FaultWorkers : InTurn(handle_settled(w))
    \/ \E w \in FaultWorkers : InTurn(handle_result(w))
    \/ \E s \in Services : consumer_commit(s)
    \/ \E p \in OutboxServices : outbox_publisher(p)

\* The loops keep running as in the saga, an admitted call of the gateway
\* goes on, and Redis comes back.  Nothing obliges a client to post, Redis
\* to fail or a task to be cancelled.
FaultFairness ==
    /\ \A w \in FaultWorkers :
        /\ WF_vars(InTurn(create_payment(w)))
        /\ WF_vars(InTurn(handle_payment_requested(w)))
        /\ WF_vars(InTurn(handle_risk_approved(w)))
        /\ WF_vars(InTurn(handle_risk_denied(w)))
        /\ WF_vars(InTurn(handle_authorize_request(w)))
        /\ WF_vars(InTurn(handle_authorized(w)))
        /\ WF_vars(InTurn(handle_failed(w)))
        /\ WF_vars(InTurn(handle_captured(w)))
        /\ WF_vars(InTurn(handle_settled(w)))
        /\ WF_vars(InTurn(handle_result(w)))
    /\ \A s \in Services : WF_vars(consumer_commit(s))
    /\ \A p \in OutboxServices : WF_vars(outbox_publisher(p))
    /\ WF_vars(\E d \in {"APPROVE", "DENY"} :
                      OneOperator(1, manual_decision(1, d)))
    /\ WF_vars(InTurn(\E call \in gw.calls : gateway_forward(call)))
    /\ WF_vars(InTurn(\E call \in gw.calls : gateway_return(call)))
    /\ WF_vars(InTurn(redis_up))

FaultSpec == FaultInit /\ [][FaultNext]_vars /\ FaultFairness

----------------------------------------------------------------------------
(* Properties of the saga *)

StatusOf(pid) == GetPayment(pid).status

\* The statuses the payment has passed, in the order of its timeline rows.
ToStates(pid) ==
    LET rows == OfPayment(timeline, pid)
    IN [i \in 1..Len(rows) |-> rows[i].to_state]

IsPrefix(a, b) ==
    /\ Len(a) <= Len(b)
    /\ \A i \in 1..Len(a) : a[i] = b[i]

\* The rule decision of risk was APPROVE: risk.approved without a review.
RiskApprovedByRule(pid) ==
    /\ ~ ReviewExists(pid)
    /\ \E i \in 1..Len(outbox["risk"]) :
          /\ outbox["risk"][i].topic = "risk.approved"
          /\ outbox["risk"][i].aggregate_id = pid

\* The provider's outcome for the payment was SUCCESS.
ProviderSucceeded(pid) ==
    \E i \in 1..Len(provider_attempts) :
        /\ provider_attempts[i].payment_id = pid
        /\ provider_attempts[i].result = "AUTHORIZED"

\* The ledger holds two entries for "settlement:" + pid whose DEBIT and
\* CREDIT sums are the payment's amount.
SettlementPosted(pid) ==
    LET rows == EntriesOf(entries, <<"settlement", pid>>)
    IN /\ Len(rows) = 2
       /\ SumAmounts(rows, "DEBIT") = GetPayment(pid).amount_cents
       /\ SumAmounts(rows, "CREDIT") = GetPayment(pid).amount_cents

HappyPath == <<"CREATED", "APPROVED", "AUTHORIZED", "CAPTURED", "SETTLED">>

C11_Premise(pid) ==
    /\ GetPayment(pid) # NoPayment
    /\ RiskApprovedByRule(pid)
    /\ ProviderSucceeded(pid)

C11_Order(pid) ==
    C11_Premise(pid) =>
        /\ IsPrefix(ToStates(pid), HappyPath)
        /\ StatusOf(pid) = "SETTLED" => SettlementPosted(pid)

\* A SETTLED payment stays SETTLED.
C11_StaysSettled ==
    \A pid \in PaymentIds :
        StatusOf(pid) = "SETTLED" => StatusOf(pid)' = "SETTLED"

\* C11: a payment that risk approves by rule and the provider authorizes
\* passes CREATED, APPROVED, AUTHORIZED, CAPTURED, SETTLED in that order,
\* eventually is SETTLED and stays so, and when it is SETTLED the ledger
\* holds the two settlement entries, DEBIT and CREDIT of its amount.
C11_HappyPathSettles ==
    /\ [] (\A pid \in PaymentIds : C11_Order(pid))
    /\ \A pid \in PaymentIds :
          C11_Premise(pid) ~> (StatusOf(pid) = "SETTLED")
    /\ [][C11_StaysSettled]_vars

\* The payment went the whole happy path and the ledger has its entries.
C11_Witness ==
    /\ svc = "all"
    /\ C11_Premise(1)
    /\ ToStates(1) = HappyPath
    /\ SettlementPosted(1)
\* The outbox rows of a topic that belong to the payment.
RowsOf(rows, topic, pid) ==
    SelectSeq(rows, LAMBDA r : r.topic = topic /\ r.aggregate_id = pid)

\* The payments.failed rows of the provider adapter with the error_code.
FailedRows(pid, code) ==
    SelectSeq(RowsOf(outbox["provider-adapter"], "payments.failed", pid),
              LAMBDA r : r.payload.payload.error_code = code)

\* The envelopes of a topic on the log that belong to the payment.
OnBus(topic, pid) ==
    {e \in bus : e.event_type = topic /\ e.aggregate_id = pid}

\* All three provider attempts of the payment's authorize request timed out.
TimedOut(pid) ==
    \/ \E w \in Workers : wk[w].pc = "exhausted" /\ wk[w].ev.aggregate_id = pid
    \/ FailedRows(pid, "PROVIDER_TIMEOUT") # <<>>

\* The statuses the payment passed, the stay in RISK_REVIEW left out.
StatesAfterReview(pid) ==
    SelectSeq(ToStates(pid), LAMBDA s : s # "RISK_REVIEW")

TimeoutPath == <<"CREATED", "APPROVED", "FAILED", "REVERSED">>

C12_Emitted(pid) ==
    /\ Len(FailedRows(pid, "PROVIDER_TIMEOUT")) = 1
    /\ Len(RowsOf(outbox["provider-adapter"], "payments.dlq", pid)) = 1
    /\ FailedRows(pid, "PROVIDER_DECLINE") = <<>>

C12_Order(pid) ==
    /\ Len(FailedRows(pid, "PROVIDER_TIMEOUT")) <= 1
    /\ FailedRows(pid, "PROVIDER_TIMEOUT") # <<>> => C12_Emitted(pid)
    /\ TimedOut(pid) => IsPrefix(StatesAfterReview(pid), TimeoutPath)
    /\ Len(RowsOf(outbox["orchestrator"], "payments.reversed", pid)) =
          IF StatusOf(pid) = "REVERSED" THEN 1 ELSE 0

\* A REVERSED payment stays REVERSED.
C12_StaysReversed ==
    \A pid \in PaymentIds :
        StatusOf(pid) = "REVERSED" => StatusOf(pid)' = "REVERSED"

\* C12: when the three provider attempts of a payment all time out, the
\* provider adapter writes exactly one payments.failed row with error_code
\* PROVIDER_TIMEOUT and exactly one payments.dlq row for it; the payment
\* passes CREATED, APPROVED, FAILED, REVERSED in that order; the
\* orchestrator writes exactly one payments.reversed row, which reaches the
\* log; and the payment eventually is REVERSED and stays so.
C12_TimeoutIsCompensated ==
    /\ [] (\A pid \in PaymentIds : C12_Order(pid))
    /\ \A pid \in PaymentIds :
          TimedOut(pid) ~> (/\ C12_Emitted(pid)
                            /\ StatusOf(pid) = "REVERSED"
                            /\ Cardinality(OnBus("payments.reversed", pid)) = 1)
    /\ [][C12_StaysReversed]_vars

\* The payment was compensated after three timeouts.
C12_Witness ==
    /\ svc = "all"
    /\ C12_Emitted(1)
    /\ ToStates(1) = TimeoutPath
    /\ StatusOf(1) = "REVERSED"
    /\ OnBus("payments.reversed", 1) # {}
\* The provider's outcome for the payment was DECLINE.
Declined(pid) == FailedRows(pid, "PROVIDER_DECLINE") # <<>>

\* The provider adapter is still working on the payment's authorize request.
ProviderBusy(pid) ==
    \E w \in Workers : /\ wk[w].pc \in {"accept", "attempt", "exhausted"}
                       /\ wk[w].ev.aggregate_id = pid

C13_OneFailedAttempt(pid) ==
    LET rows == OfPayment(attempts, pid)
    IN /\ Len(rows) = 1
       /\ rows[1].result = "FAILED"
       /\ rows[1].error_code = "PROVIDER_DECLINE"

C13_Safe(pid) ==
    Declined(pid) =>
        \* no further attempt, and no other outcome
        /\ ~ ProviderBusy(pid)
        /\ Len(OfPayment(provider_attempts, pid)) = 1
        /\ Len(RowsOf(outbox["provider-adapter"], "payments.failed", pid)) = 1
        /\ RowsOf(outbox["provider-adapter"], "payments.authorized", pid) = <<>>
        \* never REVERSED, and what happened before the decline stays
        /\ "REVERSED" \notin {ToStates(pid)[i] : i \in 1..Len(ToStates(pid))}
        /\ RowsOf(outbox["orchestrator"], "payments.reversed", pid) = <<>>
        \* the attempt row comes with the move to FAILED
        /\ IF StatusOf(pid) = "FAILED"
           THEN C13_OneFailedAttempt(pid)
           ELSE OfPayment(attempts, pid) = <<>>

\* A payment FAILED after a decline stays FAILED with its one attempt row.
C13_StaysFailed ==
    \A pid \in PaymentIds :
        (Declined(pid) /\ StatusOf(pid) = "FAILED") =>
            /\ StatusOf(pid)' = "FAILED"
            /\ OfPayment(attempts, pid)' = OfPayment(attempts, pid)

\* C13: when the provider declines a payment, the provider adapter makes no
\* further attempt; the payment eventually is FAILED, stays FAILED and is
\* never REVERSED; and the orchestrator holds exactly one PaymentAttempt
\* row for it, with result FAILED and error_code PROVIDER_DECLINE.
C13_DeclineFails ==
    /\ [] (\A pid \in PaymentIds : C13_Safe(pid))
    /\ \A pid \in PaymentIds :
          Declined(pid) ~> (StatusOf(pid) = "FAILED" /\ C13_OneFailedAttempt(pid))
    /\ [][C13_StaysFailed]_vars

\* The payment failed after a decline on a later attempt than the first.
C13_Witness ==
    /\ svc = "all"
    /\ Declined(1)
    /\ StatusOf(1) = "FAILED"
    /\ C13_OneFailedAttempt(1)
    /\ OfPayment(attempts, 1)[1].attempt_number > 1
\* The status of the payment's RiskReview row, Null when there is none.
ReviewStatusOf(pid) ==
    IF ReviewExists(pid)
    THEN reviews[CHOOSE i \in 1..Len(reviews) : reviews[i].payment_id = pid].status
    ELSE Null

\* Risk decided REVIEW for the payment, and an operator approved it.
ManuallyApproved(pid) ==
    /\ ReviewExists(pid)
    /\ RowsOf(outbox["risk"], "risk.approved", pid) # <<>>

ReviewedPath ==
    <<"CREATED", "RISK_REVIEW", "APPROVED", "AUTHORIZED", "CAPTURED", "SETTLED">>

C14_Safe(pid) ==
    /\ ReviewExists(pid) =>
          \* one decision row of risk, then at most one of the operator
          /\ Len(RowsOf(outbox["risk"], "risk.denied", pid))
               + Len(RowsOf(outbox["risk"], "risk.approved", pid)) \in {1, 2}
          /\ RowsOf(outbox["risk"], "risk.denied", pid)[1].payload.payload.decision
               = "REVIEW"
          /\ StatusOf(pid) = "CREATED" => ReviewStatusOf(pid) = "PENDING"
    /\ ReviewStatusOf(pid) = "APPROVED" <=> ManuallyApproved(pid)
    /\ ManuallyApproved(pid) =>
          /\ Len(RowsOf(outbox["risk"], "risk.approved", pid)) = 1
          /\ Len(RowsOf(outbox["risk"], "risk.denied", pid)) = 1
          /\ Len(ToStates(pid)) >= 2
          /\ ProviderSucceeded(pid) => IsPrefix(ToStates(pid), ReviewedPath)
          /\ \A i \in 1..Len(ToStates(pid)) :
                i <= 3 => ToStates(pid)[i] = ReviewedPath[i]

\* C14: a payment for which risk decides REVIEW gets a PENDING RiskReview
\* row and reaches RISK_REVIEW with the row still PENDING; after a manual
\* approve the row is APPROVED, the payment goes from RISK_REVIEW to
\* APPROVED, and when the provider then answers SUCCESS it goes on through
\* AUTHORIZED and CAPTURED and eventually is SETTLED.
C14_ReviewThenApprove ==
    /\ [] (\A pid \in PaymentIds : C14_Safe(pid))
    /\ \A pid \in PaymentIds :
          /\ (ReviewExists(pid) /\ StatusOf(pid) = "CREATED")
                ~> (StatusOf(pid) = "RISK_REVIEW" /\ ReviewStatusOf(pid) = "PENDING")
          /\ ManuallyApproved(pid)
                ~> (Len(ToStates(pid)) >= 3 /\ ToStates(pid)[3] = "APPROVED")
          /\ (ManuallyApproved(pid) /\ ProviderSucceeded(pid))
                ~> (StatusOf(pid) = "SETTLED")

\* A reviewed payment was approved by the operator and settled.
C14_Witness ==
    /\ svc = "all"
    /\ ReviewStatusOf(1) = "APPROVED"
    /\ ToStates(1) = ReviewedPath
    /\ SettlementPosted(1)
\* Risk denied the payment, by rule or by the operator's decision.
RiskDenied(pid) ==
    \E i \in 1..Len(outbox["risk"]) :
        /\ outbox["risk"][i].topic = "risk.denied"
        /\ outbox["risk"][i].aggregate_id = pid
        /\ outbox["risk"][i].payload.payload.decision = "DENY"

Created(pid) == GetPayment(pid) # NoPayment

TerminalOutcomes == {"SETTLED", "FAILED", "REVERSED"}

Ended(pid) == Created(pid) /\ StatusOf(pid) \in TerminalOutcomes

C15_Outcome(pid) ==
    Ended(pid) =>
        /\ TimedOut(pid) => StatusOf(pid) = "REVERSED"
        /\ (Declined(pid) \/ RiskDenied(pid)) => StatusOf(pid) = "FAILED"
        /\ ProviderSucceeded(pid) => StatusOf(pid) = "SETTLED"
        /\ TimedOut(pid) \/ Declined(pid) \/ RiskDenied(pid)
             \/ ProviderSucceeded(pid)

\* A payment that has ended does not leave the terminal outcomes.
C15_StaysEnded ==
    \A pid \in PaymentIds : Ended(pid) => Ended(pid)'

\* C15: with every service running, the bus acknowledging and every
\* pending review decided, every created payment eventually is SETTLED,
\* FAILED or REVERSED and stays in that set; after the provider's retries
\* are exhausted it ends REVERSED, after a decline or a risk deny FAILED.
C15_EveryPaymentEnds ==
    /\ [] (\A pid \in PaymentIds : C15_Outcome(pid))
    /\ \A pid \in PaymentIds : Created(pid) ~> Ended(pid)
    /\ [][C15_StaysEnded]_vars

\* The operator denied a reviewed payment and it ended FAILED.
C15_Witness ==
    /\ svc = "all"
    /\ ReviewStatusOf(1) = "DENIED"
    /\ RiskDenied(1)
    /\ Ended(1)
    /\ ToStates(1) = <<"CREATED", "RISK_REVIEW", "FAILED">>
\* The notification rows written for the payment.
NotificationsOf(pid) == OfPayment(notifications, pid)

\* C16: every payment that has ended (SETTLED, FAILED after a decline,
\* FAILED after a risk deny, REVERSED after the timeouts) eventually has a
\* notification row, and never more than one for its one terminal event.
C16_EveryOutcomeNotified ==
    /\ [] (\A pid \in PaymentIds : Len(NotificationsOf(pid)) <= 1)
    /\ \A pid \in PaymentIds : Ended(pid) ~> (Len(NotificationsOf(pid)) = 1)
\* Every envelope handed to a handler so far is in the inbox of its service.
AllHandedApplied == \A d \in delivered : InboxHas(d[1], d[2])

\* C17: an envelope that was handed to a handler is not lost, also when the
\* handler raises: it is delivered again until the service has applied it,
\* after which a further delivery is skipped as a duplicate.  Inbox rows
\* are never deleted, so again and again every envelope handed over so far
\* is in the inbox of its service.
C17_RaisedIsRedelivered == []<>AllHandedApplied
\* The gateway answered a POST /payments with this status.
GatewayAnswered(status) == \E r \in gw.replies : r[2] = status

\* Every payments.requested envelope handed to risk has its decision row.
AllRequestedDecided ==
    \A d \in delivered :
        (d[1] = "risk" /\ d[2][1] = "payments.requested") =>
            \/ RowsOf(outbox["risk"], "risk.approved", d[2][2]) # <<>>
            \/ RowsOf(outbox["risk"], "risk.denied", d[2][2]) # <<>>

\* C19: an outage of Redis loses no payment: the gateway never answers an
\* authenticated POST /payments with an internal error, it forwards the
\* call to the orchestrator; and every payments.requested envelope that
\* risk handles, during an outage or not, eventually has a decision row.
C19_KvOutageLosesNothing ==
    /\ [] ~ GatewayAnswered(500)
    /\ []<> AllRequestedDecided
\* Every authorize request handed to the provider adapter has its outcome
\* row, or was dropped to the DLQ as invalid.
AllAuthorizeAnswered ==
    \A d \in delivered :
        (d[1] = "provider-adapter" /\ d[2][1] = "provider.authorize.requested") =>
            \/ RowsOf(outbox["provider-adapter"], "payments.authorized", d[2][2]) # <<>>
            \/ RowsOf(outbox["provider-adapter"], "payments.failed", d[2][2]) # <<>>
            \/ RowsOf(outbox["provider-adapter"], "payments.dlq", d[2][2]) # <<>>

\* The provider adapter has accepted the request of the payment (its inbox
\* row is committed) and neither works on it nor has written an outcome.
Abandoned(pid) ==
    /\ \E i \in 1..Len(inbox["provider-adapter"]) :
          inbox["provider-adapter"][i].event_id[2] = pid
    /\ ~ ProviderBusy(pid)
    /\ outbox["provider-adapter"] = <<>>

\* C20: cancelling the consumer task while a handler is suspended is safe:
\* after the restart the interrupted envelope is delivered again and the
\* outcome is that of one complete run; an authorize request interrupted in
\* the attempt loop or its backoff wait is never left without an outcome,
\* it eventually has its payments.authorized or payments.failed row.
C20_CancelledHandlerCompletes ==
    /\ []<> AllAuthorizeAnswered
    /\ []<> (\A pid \in PaymentIds : ~ Abandoned(pid))
----------------------------------------------------------------------------
(* Properties of a raising handler *)

HandlerErrors == {"conflict", "invalid", "imbalance"}

\* In this step the orchestrator or ledger handler that worker w runs raises.
Raises(w) ==
    /\ wk[w].ev # NoEvent
    /\ ServiceOf(wk[w].pc) \in {"orchestrator", "ledger"}
    /\ wk'[w].pc = "idle"
    /\ wk'[w].res \in HandlerErrors

C18_RaiseStep ==
    \A w \in Workers :
        Raises(w) =>
            /\ tables' = tables
            /\ wk'[w].pay = NoPayment /\ wk'[w].tl = <<>> /\ wk'[w].queue = <<>>

\* Every timeline row written for an event belongs to a committed handler:
\* the inbox row of the event is there as well.
C18_NoPartialTransaction ==
    \A i \in 1..Len(timeline) :
        timeline[i].event_id # NoEventId =>
            InboxHas("orchestrator", timeline[i].event_id)

\* C18: when a step of an orchestrator or ledger handler raises (the
\* conditional update did not match one row, the transition is not in the
\* table, the ledger's sums differ), the step changes no table: payments
\* with status and state_version, timeline, attempts, ledger entries,
\* account balances, outbox and inbox stay as they are, and what the
\* handler's session held is gone.
C18_RaiseRollsBack ==
    /\ [] C18_NoPartialTransaction
    /\ [][C18_RaiseStep]_vars

\* Two executions of handle_failed for the timeout event of a FAILED
\* payment: one reversed it, the other had added its attempt row and then
\* met the conflict; only the winner's attempt row is stored.
C18_Witness ==
    /\ svc = "orchestrator"
    /\ \E w1, w2 \in Workers :
          /\ wk[w1].res = "committed"
          /\ wk[w2].res = "conflict"
          /\ wk[w2].base.status = "FAILED"
    /\ StatusOf(1) = "REVERSED"
    /\ Len(OfPayment(attempts, 1)) = 1
----------------------------------------------------------------------------
(* Properties of the local transactions *)

\* The inbox of the service holds the row of an envelope of the topic that
\* is about the aggregate.
InboxOf(service, topic, agg) ==
    \E i \in 1..Len(inbox[service]) :
        /\ inbox[service][i].event_id[1] = topic
        /\ inbox[service][i].event_id[2] = agg

\* Orchestrator: risk.approved consumed for a payment, the move to APPROVED
\* and the provider.authorize.requested row come together.
C21_Orchestrator(pid) ==
    LET approved == \E i \in 1..Len(timeline) :
                        /\ timeline[i].payment_id = pid
                        /\ timeline[i].to_state = "APPROVED"
        requested == RowsOf(outbox["orchestrator"],
                            "provider.authorize.requested", pid) # <<>>
    IN /\ approved <=> requested
       /\ approved <=> (Created(pid) /\ InboxOf("orchestrator", "risk.approved", pid))

\* Ledger: payments.captured consumed, the settlement entries and the
\* payments.settled row come together.
C21_Ledger(pid) ==
    LET posted == EntriesOf(entries, <<"settlement", pid>>) # <<>>
        settled == RowsOf(outbox["ledger"], "payments.settled", pid) # <<>>
    IN /\ posted <=> settled
       /\ posted <=> InboxOf("ledger", "payments.captured", pid)

\* Provider adapter: the inbox row of an authorize request and its outcome
\* row (payments.authorized, payments.failed, or payments.dlq) come together.
C21_Provider(agg) ==
    LET outcome == \/ RowsOf(outbox["provider-adapter"], "payments.authorized", agg) # <<>>
                   \/ RowsOf(outbox["provider-adapter"], "payments.failed", agg) # <<>>
                   \/ RowsOf(outbox["provider-adapter"], "payments.dlq", agg) # <<>>
    IN outcome <=> InboxOf("provider-adapter", "provider.authorize.requested", agg)

\* C21: the tables never show the inbox row of a consumed envelope without
\* the business change and the outbox rows the envelope produces, nor those
\* without the inbox row: all of them are written by one commit.
C21_OneLocalTransaction ==
    /\ \A pid \in PaymentIds : C21_Orchestrator(pid) /\ C21_Ledger(pid)
    /\ \A agg \in PaymentIds \cup {UnknownAggregate} : C21_Provider(agg)
----------------------------------------------------------------------------
(* The risk service alone: its consumers of payments.requested, with the
   hourly counters at any of their starting values. *)

RiskInit ==
    /\ Init
    /\ svc = "risk"

RiskNext ==
    \E w \in Workers : handle_payment_requested(w) /\ UNCHANGED publisherState

RiskSpec == RiskInit /\ [][RiskNext]_vars

----------------------------------------------------------------------------
(* The provider adapter alone, with valid and invalid authorize requests on
   its topic. *)

AuthorizeRequests == ProviderEvents \cup InvalidRequests

ProviderInit ==
    /\ svc = "provider-adapter"
    /\ bus \in SUBSET AuthorizeRequests
    /\ bus # {}
    /\ Cardinality(bus) < MaxInputs
    /\ clients = {}
    /\ payments = <<>>
    /\ timeline = <<>>
    /\ attempts = <<>>
    /\ entries = <<>>
    /\ accounts = ensure_accounts
    /\ reviews = <<>>
    /\ velocity = [c \in Customers |-> 0]
    /\ provider_attempts = <<>>
    /\ notifications = <<>>
    /\ outbox = [s \in Services |-> <<>>]
    /\ inbox = [s \in Services |-> <<>>]
    /\ dup = [s \in Services |-> [t \in Topics |-> 0]]
    /\ wk = [w \in Workers |-> IdleWorker]
    /\ nextId = 0
    /\ responses = {}
    /\ pub = [p \in Publishers |-> IdlePublisher]
    /\ now = 0
    /\ failures = 0
    /\ delivered = {}
    /\ kv = TRUE
    /\ gw = IdleGateway
    /\ called = NoCall

ProviderNext ==
    \E w \in Workers : handle_authorize_request(w) /\ UNCHANGED publisherState

ProviderSpec == ProviderInit /\ [][ProviderNext]_vars

----------------------------------------------------------------------------
(* The ledger and the clients of its database: handle_captured consumes the
   captured payments, and any client may send an UPDATE or a DELETE for a
   committed row of ledger_entries. *)

LedgerInit ==
    /\ Init
    /\ svc = "ledger"

LedgerNext ==
    \/ \E w \in Workers : handle_captured(w) /\ UNCHANGED publisherState
    \/ \E TG_OP \in RowStatements : \E i \in 1..Len(entries) :
          ledger_entries_statement(TG_OP, i)

LedgerSpec == LedgerInit /\ [][LedgerNext]_vars

----------------------------------------------------------------------------
(* The functions of the services, called on their own: each action calls
   one function on arguments of its domain and records what it returned
   or raised. *)

\* Status strings: those of the table, one the table does not know, None.
StatusInputs == STATUSES \cup {"UNKNOWN", Null}

\* validate_transition(current, new)
call_validate_transition(current, new) ==
    /\ called' = [fn |-> "validate_transition", args |-> <<current, new>>,
                result |-> IF validate_transition(current, new)
                           THEN <<"returned">> ELSE <<"ValueError">>]
    /\ UNCHANGED <<svc, bus, stores, dup, wk, nextId, clients, responses,
                   publisherState, delivered, kv, gw>>

\* The counter of the hour before the call, the value stored under
\* failed_attempts (None reads as 0), and the amount: values on both sides of
\* each threshold.
CounterInputs ==
    {0, risk_velocity_per_hour - 1, risk_velocity_per_hour,
     risk_deny_frequency_threshold - 1, risk_deny_frequency_threshold}
FailedInputs == {0, 2, 3}
AmountInputs == {5000, risk_review_amount_cents, risk_review_amount_cents + 1}

\* _rule_decision(customer_id, amount_cents) for cust-1: INCR of the hourly
\* counter, GET of failed_attempts, and the rules.
call__rule_decision(counter, failed, amount_cents) ==
    /\ kv
    /\ velocity' = [velocity EXCEPT !["cust-1"] = counter + 1]
    /\ called' = [fn |-> "_rule_decision",
                  args |-> <<counter, failed, amount_cents>>,
                  result |-> _rule_decision(counter + 1, failed, amount_cents)]
    /\ UNCHANGED <<orchestratorStore, ledgerStore, providerStore,
                   notificationStore, reviews, outbox, inbox>>
    /\ UNCHANGED <<svc, bus, dup, wk, nextId, clients, responses,
                   publisherState, delivered, kv, gw>>

FunctionInit ==
    /\ Init
    /\ svc = "orchestrator"
    /\ bus = {}
    /\ clients = {}
    /\ velocity = [c \in Customers |-> 0]

FunctionNext ==
    \/ \E current, new \in StatusInputs : call_validate_transition(current, new)
    \/ \E counter \in CounterInputs, failed \in FailedInputs,
          amount_cents \in AmountInputs :
              call__rule_decision(counter, failed, amount_cents)

FunctionSpec == FunctionInit /\ [][FunctionNext]_vars

----------------------------------------------------------------------------
(* Properties of the functions *)

\* C22: validate_transition(current, new) returns exactly when the table
\* lists new among the statuses that may follow current, and raises
\* ValueError for every other pair, also when current is no status of the
\* table; CREATED to APPROVED returns, CREATED to SETTLED raises.
C22_ValidateTransition ==
    called.fn = "validate_transition" =>
        LET current == called.args[1]
            new == called.args[2]
            allowed == current \in DOMAIN SpecTable /\ new \in SpecTable[current]
        IN /\ called.result \in {<<"returned">>, <<"ValueError">>}
           /\ called.result = <<"returned">> <=> allowed
           /\ called.args = <<"CREATED", "APPROVED">> => called.result = <<"returned">>
           /\ called.args = <<"CREATED", "SETTLED">> => called.result = <<"ValueError">>

\* A current status that the table does not list was refused.
C22_Witness ==
    /\ called.fn = "validate_transition"
    /\ called.args = <<"UNKNOWN", "FAILED">>
    /\ called.result = <<"ValueError">>
----------------------------------------------------------------------------
(* Properties of the manual review decision *)

\* C23: a manual decision for a payment without a review row is answered 404,
\* one for a review that is not PENDING or for a payment the orchestrator does
\* not report in RISK_REVIEW is answered 409, and each of these leaves the
\* review rows and the risk outbox as they were; the decision is written, with
\* one more outbox row, only for a PENDING review of a payment in RISK_REVIEW.
C23_Step ==
    \A d \in {"APPROVE", "DENY"} : \A w \in Workers :
        /\ manual_decision_select(w, 1, d) =>
              LET rejected == /\ reviews' = reviews
                              /\ outbox' = outbox
                              /\ wk' = wk
                              /\ called'.result[1] = "ValueError"
              IN /\ ReviewStatusOf(1) = Null =>
                        rejected /\ called'.result[3] = 404
                 /\ ReviewStatusOf(1) \notin {Null, "PENDING"} =>
                        rejected /\ called'.result[3] = 409
                 /\ ReviewStatusOf(1) = "PENDING" /\ StatusOf(1) # "RISK_REVIEW" =>
                        rejected /\ called'.result[3] = 409
                 /\ wk'[w].pc = "m_commit" =>
                        /\ ReviewStatusOf(1) = "PENDING"
                        /\ StatusOf(1) = "RISK_REVIEW"
        /\ wk[w].pc = "m_commit" /\ wk[w].ev.payload.decision = d
              /\ wk'[w].pc = "idle" =>
              /\ called'.result[1] = "returned"
              /\ ReviewStatusOf(1)' = review_status(d)
              /\ Len(outbox'["risk"]) = Len(outbox["risk"]) + 1

C23_ManualDecisionRejected == [][C23_Step]_vars

\* A decision on a PENDING review was refused with 409 because the
\* orchestrator had not yet put the payment in RISK_REVIEW.
C23_Witness ==
    /\ called.fn = "manual_decision"
    /\ called.result = <<"ValueError", "payment must be in RISK_REVIEW", 409>>
    /\ ReviewStatusOf(1) = "PENDING"
    /\ StatusOf(1) = "CREATED"
    /\ Len(outbox["risk"]) = 1
----------------------------------------------------------------------------
(* Properties of the ledger's storage *)

\* C24: ledger_entries is append-only.  Every step of the ledger, and every
\* UPDATE or DELETE a client sends for a committed row, leaves each committed
\* row in its place with all its fields: the table before the step is a prefix
\* of the table after it, and the statement is answered by the trigger's
\* exception.
C24_Step ==
    /\ IsPrefix(entries, entries')
    /\ \A TG_OP \in RowStatements, i \in 1..Len(entries) :
           ledger_entries_statement(TG_OP, i) =>
               /\ entries' = entries
               /\ called'.result = <<"ledger_entries is append-only", TG_OP>>

C24_AppendOnly == [][C24_Step]_vars

\* A DELETE of the second row of a posted settlement was refused and both
\* rows of the settlement are in the table.
C24_Witness ==
    /\ called.fn = "prevent_ledger_entry_mutation"
    /\ called.args = <<"DELETE", 2>>
    /\ called.result = <<"ledger_entries is append-only", "DELETE">>
    /\ Len(entries) >= 2
    /\ entries[2].direction = "CREDIT"
----------------------------------------------------------------------------
(* Properties of the outbox rows *)

OutboxStatusMoves ==
    { <<"PENDING", "PROCESSING">>, <<"PROCESSING", "SENT">>,
      <<"PROCESSING", "PENDING">>, <<"PROCESSING", "PROCESSING">> }

\* C25: in every step every outbox row keeps its status or moves PENDING to
\* PROCESSING, PROCESSING to SENT, PROCESSING to PENDING or PROCESSING to
\* PROCESSING; a row that is PROCESSING before and after with another sent_at
\* was stale; mark_outbox_sent and requeue_outbox_event leave every row that
\* is not PROCESSING as it is; a SENT row is the same row after every step.
C25_Step ==
    /\ Len(outbox'[svc]) >= Len(outbox[svc])
    /\ \A i \in 1..Len(outbox[svc]) :
        LET old == outbox[svc][i]
            new == outbox'[svc][i]
        IN /\ new.status # old.status =>
                  <<old.status, new.status>> \in OutboxStatusMoves
           /\ old.status = "PROCESSING" /\ new.status = "PROCESSING" /\ new # old =>
                  /\ old.sent_at < now - processing_timeout_seconds
                  /\ new = [old EXCEPT !.sent_at = now]
           /\ old.status = "SENT" => new = old
           /\ \A p \in Publishers :
                  PublisherMark(p) \/ PublisherRequeue(p) =>
                      /\ old.status # "PROCESSING" => new = old
                      /\ i # Head(pub[p].batch) => new = old

C25_OutboxStatusMoves == [][C25_Step]_vars

\* A publisher is about to mark a row that the other publisher reclaimed,
\* published and marked SENT at an earlier time.
C25_Witness ==
    \E p \in Publishers :
        /\ pub[p].pc = "mark"
        /\ outbox[svc][Head(pub[p].batch)].status = "SENT"
        /\ outbox[svc][Head(pub[p].batch)].sent_at < now
----------------------------------------------------------------------------
(* Properties of the claim *)

\* The row was claimed less than the processing timeout ago.
YoungProcessing(row) ==
    /\ row.status = "PROCESSING"
    /\ row.sent_at >= now - processing_timeout_seconds

\* The row was claimed longer ago than the processing timeout.
StaleProcessing(row) ==
    /\ row.status = "PROCESSING"
    /\ row.sent_at # NullInt
    /\ row.sent_at < now - processing_timeout_seconds

\* The rows a claim at this moment may return.
ClaimedBy(b) == {b[k] : k \in 1..Len(b)}

\* C26 (the claim step): the rows a claim returns are exactly the rows it
\* changes; each of them was PENDING, or PROCESSING since longer than the
\* timeout, and is PROCESSING with sent_at now afterwards.
C26_Step ==
    \A p \in Publishers :
        claim_outbox_batch(p) =>
            \A i \in 1..Len(outbox[svc]) :
                LET old == outbox[svc][i]
                    new == outbox'[svc][i]
                IN IF i \in ClaimedBy(pub'[p].batch)
                   THEN /\ old.status = "PENDING" \/ StaleProcessing(old)
                        /\ new = [old EXCEPT !.status = "PROCESSING",
                                             !.sent_at = now]
                   ELSE new = old

\* C26 (the states): no claim returns a row that is PROCESSING for less than
\* the timeout, so the claim of a second publisher that follows the commit of
\* the first one does not return the first one's rows; every claim returns
\* each row that is PROCESSING for longer than the timeout, whether or not
\* the publisher that claimed it is still running.
C26_State ==
    \A i \in 1..Len(outbox[svc]) :
        \A b \in ClaimBatches(outbox[svc]) :
            /\ YoungProcessing(outbox[svc][i]) => i \notin ClaimedBy(b)
            /\ StaleProcessing(outbox[svc][i]) => i \in ClaimedBy(b)
            /\ outbox[svc][i].status = "SENT" => i \notin ClaimedBy(b)

----------------------------------------------------------------------------
(* Properties of the review gate *)

\* The timeline of the payment has a row to the status.
Reached(pid, status) ==
    \E i \in 1..Len(timeline) :
        timeline[i].payment_id = pid /\ timeline[i].to_state = status

\* C27: a payment with a RiskReview row (its rule decision was REVIEW) has
\* reached APPROVED, or has a provider.authorize.requested row in the
\* orchestrator's outbox, or a risk.approved row in the outbox of risk, only
\* if its review is APPROVED; every risk.approved row carries the decision
\* APPROVE, and the rows of REVIEW and DENY decisions are risk.denied rows.
C27_ReviewGate ==
    /\ \A pid \in PaymentIds :
          /\ ReviewExists(pid)
          /\ \/ Reached(pid, "APPROVED")
             \/ StatusOf(pid) \notin {"CREATED", "RISK_REVIEW", "FAILED"}
             \/ RowsOf(outbox["orchestrator"],
                       "provider.authorize.requested", pid) # <<>>
             \/ RowsOf(outbox["risk"], "risk.approved", pid) # <<>>
          => ReviewStatusOf(pid) = "APPROVED"
    /\ \A i \in 1..Len(outbox["risk"]) :
          LET row == outbox["risk"][i]
          IN /\ row.topic = "risk.approved" <=>
                    row.payload.payload.decision = "APPROVE"
             /\ row.payload.payload.decision \in {"REVIEW", "DENY"} =>
                    row.topic = "risk.denied"

\* The payment was held for review, the operator approved it, and the
\* authorize request was emitted after that.
C27_Witness ==
    /\ svc = "all"
    /\ ReviewStatusOf(1) = "APPROVED"
    /\ Reached(1, "RISK_REVIEW")
    /\ StatusOf(1) = "APPROVED"
    /\ RowsOf(outbox["orchestrator"], "provider.authorize.requested", 1) # <<>>
----------------------------------------------------------------------------
(* Properties of the provider adapter *)

\* The rows a step appends to the outbox of the provider adapter.
AddedRows ==
    SubSeq(outbox'["provider-adapter"], Len(outbox["provider-adapter"]) + 1,
           Len(outbox'["provider-adapter"]))

IsTimeoutFailed(row) ==
    /\ row.topic = "payments.failed"
    /\ row.payload.payload.error_code = "PROVIDER_TIMEOUT"

IsRetryExhausted(row) ==
    /\ row.topic = "payments.dlq"
    /\ row.payload.payload.error_type = "RETRY_EXHAUSTED"

\* C28: a handler of one authorize request is in its first, second or third
\* attempt; an attempt that answers SUCCESS or DECLINE commits its attempt row
\* with one payments.authorized or payments.failed row and ends the handler;
\* a step appends a payments.failed row with PROVIDER_TIMEOUT exactly when it
\* appends a RETRY_EXHAUSTED payments.dlq row and exactly when it ends a
\* handler whose three attempts have timed out, and then these two are the
\* rows it appends: attempt_number 3, retryable, replay_topic
\* provider.authorize.requested, failed_event the request.
C28_Step ==
    LET timedout == \E k \in 1..Len(AddedRows) : IsTimeoutFailed(AddedRows[k])
        exhausted == \E k \in 1..Len(AddedRows) : IsRetryExhausted(AddedRows[k])
        answered(w) == /\ wk[w].pc = "attempt"
                       /\ wk'[w].pc = "idle"
        gaveUp(w) == /\ wk[w].attempt = 4
                     /\ wk'[w].pc = "idle"
    IN /\ \A w \in Workers : wk'[w].pc = "attempt" => wk'[w].attempt \in 1..3
       /\ \A w \in Workers :
             answered(w) =>
                 /\ Len(provider_attempts') = Len(provider_attempts) + 1
                 /\ provider_attempts'[Len(provider_attempts')].attempt_number
                        = wk[w].attempt
                 /\ Len(AddedRows) = 1
                 /\ AddedRows[1].topic \in {"payments.authorized", "payments.failed"}
                 /\ AddedRows[1].payload.payload.attempt_number = wk[w].attempt
                 /\ ~ timedout
       /\ Len(provider_attempts') > Len(provider_attempts) =>
             \E w \in Workers : answered(w)
       /\ timedout <=> exhausted
       /\ timedout <=> \E w \in Workers : gaveUp(w)
       /\ \A w \in Workers :
             gaveUp(w) =>
                 /\ Len(AddedRows) = 2
                 /\ IsTimeoutFailed(AddedRows[1])
                 /\ AddedRows[1].payload.payload.attempt_number = 3
                 /\ AddedRows[1].aggregate_id = wk[w].ev.aggregate_id
                 /\ IsRetryExhausted(AddedRows[2])
                 /\ AddedRows[2].payload.payload.retryable = TRUE
                 /\ AddedRows[2].payload.payload.replay_topic
                        = "provider.authorize.requested"
                 /\ AddedRows[2].payload.payload.failed_event = wk[w].ev
                 /\ provider_attempts' = provider_attempts

C28_ThreeAttempts == [][C28_Step]_vars

\* All three calls for a customer whose outcomes are drawn at random timed
\* out: the failure and the dead letter are enqueued, no attempt row exists.
C28_Witness ==
    /\ svc = "provider-adapter"
    /\ Len(outbox["provider-adapter"]) = 2
    /\ IsTimeoutFailed(outbox["provider-adapter"][1])
    /\ outbox["provider-adapter"][1].payload.payload.attempt_number = 3
    /\ IsRetryExhausted(outbox["provider-adapter"][2])
    /\ outbox["provider-adapter"][2].payload.payload.failed_event.payload.customer_id
           = "cust-1"
    /\ provider_attempts = <<>>

\* The payload is one that the validation of the adapter refuses.
InvalidPayload(pl) ==
    \/ pl.customer_id \in {Null, ""}
    \/ pl.currency = Null \/ Len(pl.currency) # 3
    \/ pl.amount_cents = NullInt \/ pl.amount_cents <= 0

\* The payments.dlq rows of the adapter that name the event as their source.
DlqRowsOf(e) ==
    SelectSeq(outbox["provider-adapter"],
              LAMBDA r : /\ r.topic = "payments.dlq"
                         /\ r.payload.payload.source_event_id = e.event_id)

\* C29 (the step): the handler of a request with an invalid payload commits,
\* with the inbox row, one payments.dlq row (NON_RETRYABLE, not retryable,
\* without replay_topic and failed_event, naming the request), no attempt row
\* and no other outbox row, and ends.
C29_Step ==
    \A w \in Workers :
        /\ wk[w].pc = "accept"
        /\ wk'[w] # wk[w]
        /\ InvalidPayload(wk[w].ev.payload)
        /\ ~ InboxHas("provider-adapter", wk[w].ev.event_id)
        => /\ Len(AddedRows) = 1
           /\ AddedRows[1].topic = "payments.dlq"
           /\ AddedRows[1].aggregate_id = wk[w].ev.aggregate_id
           /\ AddedRows[1].payload.payload.error_type = "NON_RETRYABLE"
           /\ AddedRows[1].payload.payload.retryable = FALSE
           /\ AddedRows[1].payload.payload.replay_topic = Null
           /\ AddedRows[1].payload.payload.failed_event = NoEvent
           /\ AddedRows[1].payload.payload.source_event_id = wk[w].ev.event_id
           /\ inbox'["provider-adapter"] =
                  Append(inbox["provider-adapter"],
                         InboxEvent(wk[w].ev.event_id, "provider-adapter"))
           /\ provider_attempts' = provider_attempts
           /\ wk'[w].pc = "idle"

\* C29 (the states): no handler is in the retry loop for a request with an
\* invalid payload, and a consumed invalid request has exactly one
\* payments.dlq row.
C29_State ==
    /\ \A w \in Workers :
          wk[w].pc \in {"attempt", "exhausted"} => ~ InvalidPayload(wk[w].ev.payload)
    /\ \A e \in AuthorizeRequests :
          InvalidPayload(e.payload) =>
              Len(DlqRowsOf(e)) =
                  IF InboxHas("provider-adapter", e.event_id) THEN 1 ELSE 0

C29_InvalidPayloadDropped == [][C29_Step]_vars /\ []C29_State

\* The request with the empty customer_id and the one with the amount 0 were
\* both dropped: two dead letters and nothing else.
C29_Witness ==
    /\ svc = "provider-adapter"
    /\ Len(outbox["provider-adapter"]) = 2
    /\ \E e1, e2 \in InvalidRequests :
          /\ e1.payload.customer_id = ""
          /\ e2.payload.amount_cents = 0
          /\ Len(DlqRowsOf(e1)) = 1
          /\ Len(DlqRowsOf(e2)) = 1
    /\ provider_attempts = <<>>
    /\ \A w \in Workers : wk[w].pc = "idle"
----------------------------------------------------------------------------
(* Properties of the risk rules *)

\* C30: the decision is that of the first rule that matches, in the order:
\* counter after the increment above the deny threshold, DENY/high_frequency;
\* amount above the review amount, REVIEW/high_amount; failed_attempts at
\* least 3, REVIEW/multiple_failed_attempts; counter after the increment above
\* velocity_per_hour, REVIEW/velocity_threshold; none, APPROVE/rule_passed.
\* The counter of the customer is one more than before the call.
C30_FirstMatchingRule ==
    called.fn = "_rule_decision" =>
        LET velocity_count == called.args[1] + 1
            failed == called.args[2]
            amount_cents == called.args[3]
            deny == velocity_count > 50
            high == amount_cents > 100000
            many == failed >= 3
            fast == velocity_count > 20
        IN /\ velocity["cust-1"] = velocity_count
           /\ deny => called.result = <<"DENY", "high_frequency">>
           /\ ~ deny /\ high => called.result = <<"REVIEW", "high_amount">>
           /\ ~ deny /\ ~ high /\ many =>
                  called.result = <<"REVIEW", "multiple_failed_attempts">>
           /\ ~ deny /\ ~ high /\ ~ many /\ fast =>
                  called.result = <<"REVIEW", "velocity_threshold">>
           /\ ~ deny /\ ~ high /\ ~ many /\ ~ fast =>
                  called.result = <<"APPROVE", "rule_passed">>

\* Every rule matched at once, and the first one decided.
C30_Witness ==
    /\ called.fn = "_rule_decision"
    /\ called.args = <<50, 3, 100001>>
    /\ called.result = <<"DENY", "high_frequency">>
----------------------------------------------------------------------------
(* Properties of the risk service *)

\* The rows a step appends to the outbox of risk.
AddedRiskRows ==
    SubSeq(outbox'["risk"], Len(outbox["risk"]) + 1, Len(outbox'["risk"]))

\* The risk_reviews rows of the payment.
ReviewRowsOf(rows, pid) == SelectSeq(rows, LAMBDA r : r.payment_id = pid)

\* C31 (the step): the commit of a payments.requested handler appends the
\* inbox row with one outbox row of the event's payment, on risk.approved if
\* the decision is APPROVE and on risk.denied if it is DENY or REVIEW, with
\* the decision in its payload; it appends a PENDING RiskReview of the payment
\* if the decision is REVIEW and the payment has none, and no review row
\* otherwise; no other step appends to the outbox or to the reviews.
C31_Step ==
    /\ \A w \in Workers :
          /\ wk[w].pc = "r_commit"
          /\ wk'[w].pc = "idle"
          /\ inbox'["risk"] = Append(inbox["risk"],
                                     InboxEvent(wk[w].ev.event_id, "risk"))
          => LET e == wk[w].ev
                 decision == wk[w].decision[1]
             IN /\ decision \in {"APPROVE", "DENY", "REVIEW"}
                /\ Len(AddedRiskRows) = 1
                /\ AddedRiskRows[1].aggregate_id = e.aggregate_id
                /\ AddedRiskRows[1].status = "PENDING"
                /\ AddedRiskRows[1].topic =
                       IF decision = "APPROVE" THEN "risk.approved"
                                               ELSE "risk.denied"
                /\ AddedRiskRows[1].payload.payload.decision = decision
                /\ IF decision = "REVIEW"
                      /\ ReviewRowsOf(reviews, e.aggregate_id) = <<>>
                   THEN /\ Len(reviews') = Len(reviews) + 1
                        /\ reviews'[Len(reviews')].payment_id = e.aggregate_id
                        /\ reviews'[Len(reviews')].status = "PENDING"
                        /\ SubSeq(reviews', 1, Len(reviews)) = reviews
                   ELSE reviews' = reviews
    /\ outbox'["risk"] # outbox["risk"] \/ reviews' # reviews =>
          \E w \in Workers : wk[w].pc = "r_commit" /\ wk'[w].res = "committed"

\* C31 (the states): a consumed payments.requested event has exactly one row
\* in the outbox of risk and an event that is not consumed has none; a payment
\* has at most one RiskReview, and has one exactly when its row carries the
\* decision REVIEW.
C31_State ==
    \A e \in RiskEvents :
        LET rows == SelectSeq(outbox["risk"],
                              LAMBDA r : r.aggregate_id = e.aggregate_id)
        IN /\ Len(rows) = IF InboxHas("risk", e.event_id) THEN 1 ELSE 0
           /\ Len(ReviewRowsOf(reviews, e.aggregate_id)) <= 1
           /\ Len(ReviewRowsOf(reviews, e.aggregate_id)) = 1 <=>
                  /\ Len(rows) = 1
                  /\ rows[1].payload.payload.decision = "REVIEW"

C31_OneDecisionEvent == [][C31_Step]_vars /\ []C31_State

\* Both requests are consumed: the first was approved, the second is held for
\* review because of its amount.
C31_Witness ==
    /\ svc = "risk"
    /\ Len(outbox["risk"]) = 2
    /\ \E i, j \in 1..2 :
          /\ outbox["risk"][i].topic = "risk.approved"
          /\ outbox["risk"][i].aggregate_id = 1
          /\ outbox["risk"][j].topic = "risk.denied"
          /\ outbox["risk"][j].payload.payload.decision = "REVIEW"
          /\ outbox["risk"][j].aggregate_id = 2
    /\ Len(reviews) = 1
    /\ reviews[1].payment_id = 2
    /\ reviews[1].status = "PENDING"
----------------------------------------------------------------------------
(* Properties of the orchestrator's handlers *)

\* The step is the commit of worker w's handler of the event e, for a payment
\* that exists.
Commits(w, e) ==
    /\ wk[w].pc = "commit"
    /\ wk[w].ev = e
    /\ wk'[w].res = "committed"
    /\ GetPayment(e.aggregate_id) # NoPayment

\* The rows the step appends to a table.
Appended(before, after) == SubSeq(after, Len(before) + 1, Len(after))

\* C32: the commit of a risk.denied handler leaves the payment in RISK_REVIEW
\* if the event's decision is REVIEW and in FAILED if it is DENY, appends one
\* timeline row, from the status before to that status and carrying the
\* event's id, appends the inbox row of the event, and appends nothing to the
\* outbox and to the attempts.
C32_Step ==
    \A w \in Workers : \A e \in OrchestratorEvents :
        Commits(w, e) /\ e.event_type = "risk.denied" =>
            LET target == CASE e.payload.decision = "REVIEW" -> "RISK_REVIEW"
                            [] e.payload.decision = "DENY" -> "FAILED"
                before == GetPayment(e.aggregate_id)
                after == GetPayment(e.aggregate_id)'
                rows == Appended(timeline, timeline')
            IN /\ after.status = target
               /\ after.state_version = before.state_version + 1
               /\ Len(rows) = 1
               /\ rows[1].payment_id = e.aggregate_id
               /\ rows[1].from_state = before.status
               /\ rows[1].to_state = target
               /\ rows[1].event_id = e.event_id
               /\ Appended(inbox["orchestrator"], inbox'["orchestrator"]) =
                      <<InboxEvent(e.event_id, "orchestrator")>>
               /\ outbox' = outbox
               /\ attempts' = attempts

C32_RiskDeniedRouting == [][C32_Step]_vars

\* The payment was held for review and was then denied: both risk.denied
\* events are consumed, and nothing was emitted for them.
C32_Witness ==
    /\ svc = "orchestrator"
    /\ ToStates(1) = <<"CREATED", "RISK_REVIEW", "FAILED">>
    /\ InboxHas("orchestrator", <<"risk.denied", 1, 0>>)
    /\ InboxHas("orchestrator", <<"risk.denied", 1, -1>>)
    /\ Len(outbox["orchestrator"]) = 1

\* The step is one of worker w's handler of e and is not its commit.
BeforeCommit(w, e) ==
    /\ wk[w].ev = e
    /\ wk'[w] # wk[w]
    /\ wk'[w].res # "committed"

\* The step writes to no table of the orchestrator.
NothingCommitted ==
    /\ payments' = payments
    /\ timeline' = timeline
    /\ attempts' = attempts
    /\ outbox' = outbox
    /\ inbox' = inbox

\* C33: the commit of a payments.authorized handler for a payment in APPROVED
\* leaves it CAPTURED with state_version raised by 2, appends the timeline
\* rows APPROVED to AUTHORIZED and AUTHORIZED to CAPTURED, both with the
\* event's id, one PaymentAttempt with result AUTHORIZED, one
\* payments.captured outbox row and the inbox row; every other step of the
\* handler writes nothing.
C33_Step ==
    \A w \in Workers : \A e \in OrchestratorEvents :
        e.event_type = "payments.authorized" =>
            /\ BeforeCommit(w, e) => NothingCommitted
            /\ Commits(w, e) /\ GetPayment(e.aggregate_id).status = "APPROVED" =>
                  LET before == GetPayment(e.aggregate_id)
                      after == GetPayment(e.aggregate_id)'
                      rows == Appended(timeline, timeline')
                      tried == Appended(attempts, attempts')
                      emitted == Appended(outbox["orchestrator"],
                                          outbox'["orchestrator"])
                  IN /\ after.status = "CAPTURED"
                     /\ after.state_version = before.state_version + 2
                     /\ Len(rows) = 2
                     /\ rows[1].from_state = "APPROVED"
                     /\ rows[1].to_state = "AUTHORIZED"
                     /\ rows[2].from_state = "AUTHORIZED"
                     /\ rows[2].to_state = "CAPTURED"
                     /\ rows[1].event_id = e.event_id
                     /\ rows[2].event_id = e.event_id
                     /\ rows[1].payment_id = e.aggregate_id
                     /\ rows[2].payment_id = e.aggregate_id
                     /\ Len(tried) = 1
                     /\ tried[1].payment_id = e.aggregate_id
                     /\ tried[1].result = "AUTHORIZED"
                     /\ Len(emitted) = 1
                     /\ emitted[1].topic = "payments.captured"
                     /\ emitted[1].aggregate_id = e.aggregate_id
                     /\ Appended(inbox["orchestrator"], inbox'["orchestrator"]) =
                            <<InboxEvent(e.event_id, "orchestrator")>>

C33_AuthorizedCaptures == [][C33_Step]_vars

\* The payment was approved, and the authorization was consumed: it is
\* CAPTURED at version 3 with one attempt and payments.captured enqueued.
C33_Witness ==
    /\ svc = "orchestrator"
    /\ ToStates(1) = <<"CREATED", "APPROVED", "AUTHORIZED", "CAPTURED">>
    /\ GetPayment(1).state_version = 3
    /\ Len(attempts) = 1
    /\ RowsOf(outbox["orchestrator"], "payments.captured", 1) # <<>>

\* C34: the commit of a payments.failed handler for an existing payment,
\* which it read in some status, moves the payment to FAILED with one
\* timeline row unless it read it FAILED, and appends one PaymentAttempt with
\* result FAILED; when the event's error_code is PROVIDER_TIMEOUT it also
\* moves the payment to REVERSED and enqueues one payments.reversed; for any
\* other error_code it leaves the payment in FAILED (it writes no payment row
\* when it read FAILED) and enqueues nothing.
C34_Step ==
    \A w \in Workers : \A e \in OrchestratorEvents :
        Commits(w, e) /\ e.event_type = "payments.failed" =>
            LET before == wk[w].base
                after == GetPayment(e.aggregate_id)'
                rows == Appended(timeline, timeline')
                tried == Appended(attempts, attempts')
                emitted == Appended(outbox["orchestrator"],
                                    outbox'["orchestrator"])
                timeout == e.payload.error_code = "PROVIDER_TIMEOUT"
                failing == IF before.status # "FAILED" THEN 1 ELSE 0
            IN /\ Len(tried) = 1
               /\ tried[1].payment_id = e.aggregate_id
               /\ tried[1].result = "FAILED"
               /\ failing = 1 =>
                     /\ Len(rows) >= 1
                     /\ rows[1].from_state = before.status
                     /\ rows[1].to_state = "FAILED"
                     /\ rows[1].event_id = e.event_id
               /\ timeout =>
                     /\ after.status = "REVERSED"
                     /\ after.state_version = before.state_version + failing + 1
                     /\ Len(rows) = failing + 1
                     /\ rows[failing + 1].from_state = "FAILED"
                     /\ rows[failing + 1].to_state = "REVERSED"
                     /\ rows[failing + 1].event_id = e.event_id
                     /\ Len(emitted) = 1
                     /\ emitted[1].topic = "payments.reversed"
                     /\ emitted[1].aggregate_id = e.aggregate_id
               /\ ~ timeout =>
                     /\ Len(rows) = failing
                     /\ emitted = <<>>
                     /\ failing = 1 =>
                           /\ after.status = "FAILED"
                           /\ after.state_version = before.state_version + 1
                     /\ failing = 0 => payments' = payments
               /\ Appended(inbox["orchestrator"], inbox'["orchestrator"]) =
                      <<InboxEvent(e.event_id, "orchestrator")>>

C34_FailedCompensation == [][C34_Step]_vars

\* A declined payment rested in FAILED with nothing enqueued after its
\* creation event, and a later timeout failure reversed it from FAILED.
C34_Witness ==
    /\ svc = "orchestrator"
    /\ ToStates(1) = <<"CREATED", "FAILED", "REVERSED">>
    /\ Len(attempts) = 2
    /\ RowsOf(outbox["orchestrator"], "payments.reversed", 1) # <<>>

\* Envelopes of the orchestrator's topics whose aggregate_id matches no
\* payment, now or later.
MissingPaymentEvents ==
    {e \in OrchestratorEvents : e.aggregate_id = UnknownAggregate}

\* C35: the commit of an orchestrator handler whose event matches no payment
\* appends the inbox row of the event and changes no payment, timeline,
\* attempt or outbox row; once that inbox row is committed it stays, and no
\* handler of the event goes past the inbox check again.
C35_Step ==
    \A e \in MissingPaymentEvents :
        /\ \A w \in Workers :
              /\ wk[w].pc = "commit"
              /\ wk[w].ev = e
              /\ wk'[w].res = "committed"
              => /\ payments' = payments
                 /\ timeline' = timeline
                 /\ attempts' = attempts
                 /\ outbox' = outbox
                 /\ inbox' = [inbox EXCEPT !["orchestrator"] =
                                 Append(@, InboxEvent(e.event_id, "orchestrator"))]
        /\ InboxHas("orchestrator", e.event_id) =>
              /\ \A w \in Workers : wk'[w].ev = e => wk[w].ev = e
              /\ InboxHas("orchestrator", e.event_id)'

\* No row of the orchestrator is about the unknown aggregate.
C35_State ==
    /\ GetPayment(UnknownAggregate) = NoPayment
    /\ \A i \in 1..Len(timeline) : timeline[i].payment_id # UnknownAggregate
    /\ \A i \in 1..Len(attempts) : attempts[i].payment_id # UnknownAggregate
    /\ \A i \in 1..Len(outbox["orchestrator"]) :
          outbox["orchestrator"][i].aggregate_id # UnknownAggregate

C35_MissingPaymentAbsorbed == [][C35_Step]_vars /\ []C35_State

\* Only an event about no payment was delivered: its inbox row is the one
\* row the orchestrator holds, and its redelivery was counted as a duplicate.
C35_Witness ==
    /\ svc = "orchestrator"
    /\ bus = MissingPaymentEvents
    /\ clients = {}
    /\ \E e \in MissingPaymentEvents :
          inbox["orchestrator"] = <<InboxEvent(e.event_id, "orchestrator")>>
    /\ dup["orchestrator"]["payments.failed"] = 1
    /\ payments = <<>>
    /\ timeline = <<>>
    /\ attempts = <<>>
    /\ outbox["orchestrator"] = <<>>

----------------------------------------------------------------------------
(* Properties of concurrent manual decisions *)

\* The outbox rows of the risk service that carry a manual decision for the
\* payment: a payment with a review row was decided REVIEW by the rules, so
\* an APPROVE or DENY envelope about it comes from manual_decision.
ManualEvents(pid) ==
    {i \in 1..Len(outbox["risk"]) :
        /\ ReviewExists(pid)
        /\ outbox["risk"][i].aggregate_id = pid
        /\ outbox["risk"][i].payload.payload.decision \in {"APPROVE", "DENY"}}

C36_Step ==
    \A pid \in PaymentIds :
        ReviewStatusOf(pid) \notin {Null, "PENDING"} =>
            ReviewStatusOf(pid)' = ReviewStatusOf(pid)

C36_State == \A pid \in PaymentIds : Cardinality(ManualEvents(pid)) <= 1

\* C36: for each RiskReview at most one manual decision takes effect, also
\* with concurrent requests: at most one manual risk.approved/risk.denied is
\* enqueued for the payment, and a review status that has left PENDING never
\* changes again.
C36_OneManualDecision == [][C36_Step]_vars /\ []C36_State

----------------------------------------------------------------------------
(* Properties that tie the services together *)

\* The ledger holds an entry for "settlement:" + pid.
HasEntries(pid) == EntriesOf(entries, <<"settlement", pid>>) # <<>>

\* A payments.settled row of the payment is in the ledger's outbox.
HasSettledEvent(pid) == RowsOf(outbox["ledger"], "payments.settled", pid) # <<>>

\* C37: whenever the ledger holds entries for "settlement:" + payment_id the
\* payment has been CAPTURED and its status is CAPTURED or SETTLED; a payment
\* whose status is FAILED or REVERSED has no ledger entries and no
\* payments.settled event.
C37_LedgerAgreesWithOrchestrator ==
    \A pid \in PaymentIds :
        /\ HasEntries(pid) =>
              /\ Reached(pid, "CAPTURED")
              /\ StatusOf(pid) \in {"CAPTURED", "SETTLED"}
        /\ StatusOf(pid) \in {"FAILED", "REVERSED"} =>
              /\ ~ HasEntries(pid)
              /\ ~ HasSettledEvent(pid)

\* The outcome rows of the payment in the provider adapter's outbox.
OutcomeRows(pid) ==
    RowsOf(outbox["provider-adapter"], "payments.authorized", pid)
        \o RowsOf(outbox["provider-adapter"], "payments.failed", pid)

\* C38: for every payment the provider adapter's outbox holds at most one
\* outcome row, payments.authorized or payments.failed, and the
\* orchestrator's outbox at most one provider.authorize.requested row.
C38_OneOutcomePerPayment ==
    \A pid \in PaymentIds :
        /\ Len(OutcomeRows(pid)) <= 1
        /\ Len(RowsOf(outbox["orchestrator"],
                      "provider.authorize.requested", pid)) <= 1

\* The provider declined the payment: its one outcome row is payments.failed,
\* and the orchestrator has consumed it.
C38_Witness ==
    /\ Len(OutcomeRows(1)) = 1
    /\ OutcomeRows(1)[1].topic = "payments.failed"
    /\ OutcomeRows(1)[1].payload.payload.error_code = "PROVIDER_DECLINE"
    /\ Len(provider_attempts) = 1
    /\ StatusOf(1) = "FAILED"

----------------------------------------------------------------------------
(* Properties of the ledger's accounts *)

\* The committed entries of one account.
EntriesOfAccount(account_id) ==
    SelectSeq(entries, LAMBDA r : r.account_id = account_id)

\* C39: in every committed state of the ledger customer_cash.balance_cents is
\* minus the sum of its DEBIT entries, merchant_receivable.balance_cents is
\* the sum of its CREDIT entries, platform_fee and clearing are 0, and the
\* balances of all accounts sum to 0.
C39_BalancesAgreeWithEntries ==
    /\ accounts["customer_cash"] =
           0 - SumAmounts(EntriesOfAccount("customer_cash"), "DEBIT")
    /\ accounts["merchant_receivable"] =
           SumAmounts(EntriesOfAccount("merchant_receivable"), "CREDIT")
    /\ accounts["platform_fee"] = 0
    /\ accounts["clearing"] = 0
    /\ accounts["customer_cash"] + accounts["merchant_receivable"]
           + accounts["platform_fee"] + accounts["clearing"] = 0

----------------------------------------------------------------------------
(* Properties of the outbox publisher's acknowledgement *)

\* Every envelope the step appends to the log is the stored envelope of an
\* outbox row, and no row's stored envelope changes: a row is published
\* again with the event_id it was published with before.
C40_Step ==
    /\ \A e \in bus' \ bus :
          \E s \in Services : \E i \in 1..Len(outbox[s]) :
              outbox[s][i].payload = e
    /\ \A s \in Services : \A i \in 1..Len(outbox[s]) :
          outbox'[s][i].payload = outbox[s][i].payload

C40_State ==
    \A s \in Services : \A i \in 1..Len(outbox[s]) :
        outbox[s][i].status = "SENT" => outbox[s][i].payload \in bus

\* C40: an outbox row is SENT only if the bus acknowledged a publish of its
\* envelope, with several publishers, stale reclaims, restarts and failed
\* publishes; every publish of a row sends the envelope stored in the row.
C40_SentWasAcknowledged == [][C40_Step]_vars /\ []C40_State

\* A publish failed and the row was requeued; a later publish of it was
\* acknowledged and the row is SENT.
C40_Witness ==
    /\ failures = 1
    /\ \E s \in Services : \E i \in 1..Len(outbox[s]) :
          /\ outbox[s][i].status = "SENT"
          /\ outbox[s][i].payload \in bus
====
